---- MODULE Spec2Model ----
(***************************************************************************)
(* A model of the WhatsApp chat parser and statistics core                 *)
(* (src/js/chatParser.js, first definition of each function).              *)
(*                                                                         *)
(* Text is a sequence of one-character strings.  A physical line is a      *)
(* record: `layout' says which of the two header patterns the line has     *)
(* ("bracket", "dash") or that it matches neither ("none"); the numeric    *)
(* tokens are held by value (parseInt of a run of digits), the time token  *)
(* as its parts, and `rest' is the remainder after the header (the whole   *)
(* raw line when layout = "none").  An instant is a whole number of        *)
(* seconds since 2000-01-01 00:00 local time, in a zone without daylight   *)
(* saving; NaN stands for the invalid Date.                                *)
(***************************************************************************)
EXTENDS Integers, Sequences, FiniteSets, TLC

VARIABLES
  rawLines,            \* parseChat: rawText after BOM removal, split into lines
  dateFormatOverride,  \* parseChat: options.dateFormat, Null when absent
  pc,                  \* "start", "scan" (determineDateFormat's loop),
                       \* "resolve" (after it), "loop" (parseChat's loop), "done"
  idx,                 \* index of the next line of the running for loop
  ambiguousSamples,    \* determineDateFormat: the samples collected
  determination,       \* parseChat: result of determineDateFormat
  format,              \* parseChat: the format timestamps are built with
  messages,            \* parseChat: records flushed so far
  current,             \* parseChat: the open record, Null when none
  result,              \* parseChat: the returned object, Null before return
  filteredMessages,    \* the `messages' argument of a call of computeStatistics
  responseOptions,     \* the `options' argument of the call
  stats,               \* what the last call returned
  responseSamples,     \* computeStatistics: responseTracking when it returned
  before,              \* arguments and outcome of the call before the last
  call,                \* the last call: "none", "refresh", "gap", "reversed",
                       \* "media", "filter"
  filterableMessages,  \* the `messages' argument of filterMessagesByDate
  startDate,           \* its `startDate' argument
  endDate,             \* its `endDate' argument
  filteredSubset,      \* what it returned
  uiStats,             \* app.js: the `currentStats' the dashboard renders
  responseTimesList,   \* app.js: responseTimesList.innerHTML
  responseCutoffNote,  \* app.js: responseCutoffNote.textContent
  insightList,         \* app.js: insightList.innerHTML
  rawCandidates,       \* the argument of chooseChatFileCandidate
  selection,           \* what it returned
  fileHelper,          \* app.js: the file name the helper shows
  rawChatText,         \* app.js: text of the loaded chat
  allMessages,         \* app.js: messages of the loaded chat
  fullStats,           \* app.js: statistics of the whole loaded chat, Null before a load
  loadStatus,          \* app.js: what the status line reports
  loads,               \* change handlers suspended at an await: file and stage
  selected             \* the files chosen so far, in order

parseVars == <<rawLines, dateFormatOverride, pc, idx, ambiguousSamples,
               determination, format, messages, current, result>>

statsVars == <<filteredMessages, responseOptions, stats, responseSamples, before, call>>

filterVars == <<filterableMessages, startDate, endDate, filteredSubset>>

renderVars == <<uiStats, responseTimesList, responseCutoffNote, insightList>>

pickVars == <<rawCandidates, selection>>

loadVars == <<fileHelper, rawChatText, allMessages, fullStats, loadStatus, loads, selected>>

vars == <<parseVars, statsVars, filterVars, renderVars, pickVars, loadVars>>

\* JavaScript's null/undefined, one value per type it stands in for.
Null == "null"
NoTime == [form |-> "other", h |-> 0, mi |-> 0, s |-> 0, period |-> ""]
NullHeader == [day |-> 0, month |-> 0, year |-> 0, time |-> NoTime, rest |-> <<>>]
NullMessage == [timestamp |-> 0, author |-> <<>>, content |-> <<>>, type |-> Null]
NullEvaluation == [format |-> Null, decreases |-> 0, span |-> 0, validCount |-> 0]
NullDetermination == [format |-> Null, ambiguous |-> FALSE, candidates |-> <<>>]
NullResult == [messages |-> <<>>, dateFormat |-> Null, ambiguous |-> FALSE,
               candidates |-> <<>>, usedOverride |-> FALSE]

\* The time value of an invalid Date, and the absence of a Date: two integers
\* below every instant the model builds, on which no arithmetic is done.
NaN == -2147483647
NoDate == -2147483646

-----------------------------------------------------------------------------
(* Bounds of the model.                                                    *)

MaxLines == 3        \* longest enumerated transcript, in lines
MaxRest == 4         \* longest enumerated header remainder, in characters

-----------------------------------------------------------------------------
(* Characters and strings.                                                 *)

Space == " "
Tab == "\t"
Newline == "\n"
Colon == ":"
Quote == "\""

\* String.prototype.trim and the regex class \s agree on what is whitespace.
IsSpace(c) == c \in {Space, Tab, Newline}

RECURSIVE TrimStart(_)
TrimStart(s) ==
  IF s # <<>> /\ IsSpace(Head(s)) THEN TrimStart(Tail(s)) ELSE s

RECURSIVE TrimEnd(_)
TrimEnd(s) ==
  IF s # <<>> /\ IsSpace(s[Len(s)]) THEN TrimEnd(SubSeq(s, 1, Len(s) - 1)) ELSE s

Trim(s) == TrimEnd(TrimStart(s))

SystemAuthor == <<"S", "y", "s", "t", "e", "m">>

-----------------------------------------------------------------------------
(* Dates: new Date(y, monthIndex, d, h, mi, s) with its roll-over of       *)
(* out-of-range fields.                                                    *)

IsLeap(y) == (y % 4 = 0 /\ y % 100 # 0) \/ y % 400 = 0

\* Days from 0000-01-01 to y-01-01 in the proleptic Gregorian calendar.
DaysBeforeYear(y) ==
  365 * y + ((y + 3) \div 4) - ((y + 99) \div 100) + ((y + 399) \div 400)

CumDays == <<0, 31, 59, 90, 120, 151, 181, 212, 243, 273, 304, 334>>

DaysBeforeMonth(y, m0) ==
  CumDays[m0 + 1] + (IF m0 >= 2 /\ IsLeap(y) THEN 1 ELSE 0)

\* ECMAScript MakeDay/MakeTime/MakeDate on finite arguments: a month index
\* outside 0..11 carries into the year, a day outside the month carries into
\* the following (or preceding) months, and so on for the time fields.
JSDate(y, monthIndex, d, h, mi, s) ==
  LET ym == y + (monthIndex \div 12)
      mn == monthIndex % 12
      day == DaysBeforeYear(ym) - DaysBeforeYear(2000)
               + DaysBeforeMonth(ym, mn) + d - 1
  IN  day * 86400 + h * 3600 + mi * 60 + s

IsNaN(t) == t = NaN

-----------------------------------------------------------------------------
(* Header matcher and timestamp builder.                                   *)

\* The second pattern asks for `\d{1,2}:\d{2}(?::\d{2})?(?:\s?[AP]M)?' as the
\* time, the marker in capitals; the first takes any text up to the bracket.
DashTime(t) == t.form \in {"hm", "hms"} /\ t.period \in {"", "AM", "PM"}

matchMessageHeader(line) ==
  IF line.layout = "none" \/ (line.layout = "dash" /\ ~DashTime(line.time))
    THEN NullHeader
  ELSE [day |-> line.day, month |-> line.month, year |-> line.year,
        time |-> line.time, rest |-> line.rest]

ToUpperCase(p) ==
  IF p \in {"am", "Am", "aM"} THEN "AM"
  ELSE IF p \in {"pm", "Pm", "pM"} THEN "PM" ELSE p

\* parseDate adding 12 to every PM hour, noon included.
parseDateNoonShifted(day, month, year, timeStr, fmt) ==
  LET d == IF fmt = "MDY" THEN month ELSE day
      m == IF fmt = "MDY" THEN day ELSE month
      y == IF year < 100 THEN year + (IF year >= 70 THEN 1900 ELSE 2000) ELSE year
      timeMatch == timeStr.form \in {"hm", "hms"}
      hours0 == IF timeMatch THEN timeStr.h ELSE 0
      minutes == IF timeMatch THEN timeStr.mi ELSE 0
      seconds == IF timeMatch /\ timeStr.form = "hms" THEN timeStr.s ELSE 0
      period == IF timeMatch THEN timeStr.period ELSE ""
      upper == ToUpperCase(period)
      hours1 == IF period # "" /\ upper = "PM" THEN hours0 + 12 ELSE hours0
      hours == IF period # "" /\ upper = "AM" /\ hours1 = 12 THEN 0 ELSE hours1
  IN  JSDate(y, m - 1, d, hours, minutes, seconds)

parseDate(day, month, year, timeStr, fmt) ==
  LET d == IF fmt = "MDY" THEN month ELSE day
      m == IF fmt = "MDY" THEN day ELSE month
      y == IF year < 100 THEN year + (IF year >= 70 THEN 1900 ELSE 2000) ELSE year
      timeMatch == timeStr.form \in {"hm", "hms"}
      hours0 == IF timeMatch THEN timeStr.h ELSE 0
      minutes == IF timeMatch THEN timeStr.mi ELSE 0
      seconds == IF timeMatch /\ timeStr.form = "hms" THEN timeStr.s ELSE 0
      period == IF timeMatch THEN timeStr.period ELSE ""
      upper == ToUpperCase(period)
      hours1 == IF period # "" /\ upper = "PM" /\ hours0 < 12 THEN hours0 + 12 ELSE hours0
      hours == IF period # "" /\ upper = "AM" /\ hours1 = 12 THEN 0 ELSE hours1
  IN  JSDate(y, m - 1, d, hours, minutes, seconds)

HeaderDate(header, fmt) ==
  parseDate(header.day, header.month, header.year, header.time, fmt)

-----------------------------------------------------------------------------
(* Date format resolver.                                                   *)

SampleCap == 50

\* The instants the samples give under fmt, the invalid ones skipped
\* (`if (Number.isNaN(candidateDate.getTime())) continue').
ValidDates(samples, fmt) ==
  SelectSeq([k \in 1..Len(samples) |-> HeaderDate(samples[k], fmt)],
            LAMBDA t : ~IsNaN(t))

\* `decreases += 1' fires once for each valid date below the valid date
\* before it.
CountDecreases(dates) ==
  Cardinality({k \in 2..Len(dates) : dates[k] < dates[k - 1]})

Abs(n) == IF n < 0 THEN -n ELSE n

evaluateFormat(samples, fmt) ==
  LET dates == ValidDates(samples, fmt)
      span == IF dates # <<>> THEN Abs(dates[Len(dates)] - dates[1]) ELSE 0
  IN  [format |-> fmt, decreases |-> CountDecreases(dates), span |-> span,
       validCount |-> Len(dates)]

\* pickBest with the span compared before the decreases.
pickBestSpanFirst(currentBest, candidate) ==
  IF currentBest = NullEvaluation THEN candidate
  ELSE IF candidate.span # currentBest.span
    THEN (IF candidate.span < currentBest.span THEN candidate ELSE currentBest)
  ELSE IF candidate.decreases # currentBest.decreases
    THEN (IF candidate.decreases < currentBest.decreases THEN candidate ELSE currentBest)
  ELSE IF candidate.validCount # currentBest.validCount
    THEN (IF candidate.validCount > currentBest.validCount THEN candidate ELSE currentBest)
  ELSE currentBest

\* pickBest returning the later evaluation when nothing tells the two apart.
pickBestLaterOnTie(currentBest, candidate) ==
  IF currentBest = NullEvaluation THEN candidate
  ELSE IF candidate.decreases # currentBest.decreases
    THEN (IF candidate.decreases < currentBest.decreases THEN candidate ELSE currentBest)
  ELSE IF candidate.span # currentBest.span
    THEN (IF candidate.span < currentBest.span THEN candidate ELSE currentBest)
  ELSE IF candidate.validCount # currentBest.validCount
    THEN (IF candidate.validCount > currentBest.validCount THEN candidate ELSE currentBest)
  ELSE candidate

\* The reducer that picks the better of two evaluations.
pickBest(currentBest, candidate) ==
  IF currentBest = NullEvaluation THEN candidate
  ELSE IF candidate.decreases # currentBest.decreases
    THEN (IF candidate.decreases < currentBest.decreases THEN candidate ELSE currentBest)
  ELSE IF candidate.span # currentBest.span
    THEN (IF candidate.span < currentBest.span THEN candidate ELSE currentBest)
  ELSE IF candidate.validCount # currentBest.validCount
    THEN (IF candidate.validCount > currentBest.validCount THEN candidate ELSE currentBest)
  ELSE currentBest

\* determineDateFormat after its scanning loop: the default when no sample
\* was collected, otherwise the better of the two evaluations.
resolveSamples(samples) ==
  IF samples = <<>>
    THEN [format |-> "DMY", ambiguous |-> FALSE, candidates |-> <<>>]
  ELSE
    LET evaluations == <<evaluateFormat(samples, "DMY"),
                         evaluateFormat(samples, "MDY")>>
        best == pickBest(pickBest(NullEvaluation, evaluations[1]), evaluations[2])
    IN  [format |-> best.format, ambiguous |-> TRUE, candidates |-> evaluations]

Conclusive(fmt) == [format |-> fmt, ambiguous |-> FALSE, candidates |-> <<>>]

-----------------------------------------------------------------------------
(* Transcript assembler: parseChat.                                        *)

\* FindSeparator matching a colon followed by a plain space only.
RECURSIVE FindSeparatorPlain(_, _)
FindSeparatorPlain(s, from) ==
  IF from + 1 > Len(s) THEN 0
  ELSE IF s[from] = Colon /\ s[from + 1] = Space THEN from
  ELSE FindSeparatorPlain(s, from + 1)

\* The first index from which s has a colon followed by a whitespace
\* character (a match of /:\s/), 0 when there is none.
RECURSIVE FindSeparator(_, _)
FindSeparator(s, from) ==
  IF from + 1 > Len(s) THEN 0
  ELSE IF s[from] = Colon /\ IsSpace(s[from + 1]) THEN from
  ELSE FindSeparator(s, from + 1)

\* String.prototype.split(/:\s/): the pieces between the matches.
RECURSIVE SplitAuthor(_)
SplitAuthor(s) ==
  LET i == FindSeparator(s, 1) IN
  IF i = 0 THEN <<s>>
  ELSE <<SubSeq(s, 1, i - 1)>> \o SplitAuthor(SubSeq(s, i + 2, Len(s)))

\* Array.prototype.join(': ').
RECURSIVE JoinContent(_)
JoinContent(pieces) ==
  IF pieces = <<>> THEN <<>>
  ELSE IF Len(pieces) = 1 THEN pieces[1]
  ELSE pieces[1] \o <<Colon, Space>> \o JoinContent(Tail(pieces))

\* replace(/^"|"$/g, ''): one quote off the start, one off the end.
StripQuotes(s) ==
  LET a == IF s # <<>> /\ Head(s) = Quote THEN Tail(s) ELSE s
  IN  IF a # <<>> /\ a[Len(a)] = Quote THEN SubSeq(a, 1, Len(a) - 1) ELSE a

normaliseAuthor(author) ==
  IF author = <<>> THEN SystemAuthor
  ELSE Trim(StripQuotes(author))

\* The record a header opens (the body of `if (header)' after the flush).
OpenRecord(header, fmt) ==
  LET timestamp == HeaderDate(header, fmt)
      authorSplit == SplitAuthor(header.rest)
  IN  IF Len(authorSplit) >= 2
        THEN [timestamp |-> timestamp,
              author |-> normaliseAuthor(Head(authorSplit)),
              content |-> Trim(JoinContent(Tail(authorSplit))),
              type |-> "message"]
        ELSE [timestamp |-> timestamp,
              author |-> SystemAuthor,
              content |-> Trim(header.rest),
              type |-> "system"]

\* AppendLine without the line break.
AppendLineNoBreak(content, line) == content \o line

\* current.content += `\n${line}`
AppendLine(content, line) == content \o <<Newline>> \o line

\* Flush with messages.unshift(current) for the push.
FlushAtFront(msgs, record) ==
  IF record = NullMessage THEN msgs
  ELSE <<[record EXCEPT !.content = Trim(@)]>> \o msgs

\* current.content = current.content.trim(); messages.push(current)
Flush(msgs, record) ==
  IF record = NullMessage THEN msgs
  ELSE Append(msgs, [record EXCEPT !.content = Trim(@)])

\* messages.filter((msg) => !Number.isNaN(msg.timestamp.getTime()))
FilterValid(msgs) == SelectSeq(msgs, LAMBDA msg : ~IsNaN(msg.timestamp))

\* ResolveFormat with the override forgotten.
ResolveFormatDetermined(override, determined) == determined

\* dateFormatOverride || determination.format
ResolveFormat(override, determined) ==
  IF override # Null THEN override ELSE determined

\* if (!rawText) return {...}
ParseEmpty ==
  /\ pc = "start"
  /\ rawLines = <<>>
  /\ result' = [messages |-> <<>>,
                dateFormat |-> ResolveFormat(dateFormatOverride, "DMY"),
                ambiguous |-> FALSE,
                candidates |-> <<>>,
                usedOverride |-> dateFormatOverride # Null]
  /\ pc' = "done"
  /\ UNCHANGED <<rawLines, dateFormatOverride, idx, ambiguousSamples,
                 determination, format, messages, current, renderVars, pickVars, loadVars>>
  /\ UNCHANGED <<statsVars, filterVars, renderVars, pickVars, loadVars>>

\* const determination = determineDateFormat(lines): entry of its loop.
ParseBegin ==
  /\ pc = "start"
  /\ rawLines # <<>>
  /\ ambiguousSamples' = <<>>
  /\ idx' = 1
  /\ pc' = "scan"
  /\ UNCHANGED <<rawLines, dateFormatOverride, determination, format, messages,
                 current, result, renderVars, pickVars, loadVars>>
  /\ UNCHANGED <<statsVars, filterVars, renderVars, pickVars, loadVars>>

\* if (!header) continue, and a header neither conclusive nor ambiguous.
ScanSkip ==
  /\ pc = "scan"
  /\ idx <= Len(rawLines)
  /\ LET header == matchMessageHeader(rawLines[idx]) IN
       \/ header = NullHeader
       \/ /\ header # NullHeader
          /\ ~(header.day > 12 /\ header.month <= 12)
          /\ ~(header.month > 12 /\ header.day <= 12)
          /\ ~(header.day <= 12 /\ header.month <= 12)
  /\ idx' = idx + 1
  /\ UNCHANGED <<rawLines, dateFormatOverride, pc, ambiguousSamples, determination,
                 format, messages, current, result, renderVars, pickVars, loadVars>>
  /\ UNCHANGED <<statsVars, filterVars, renderVars, pickVars, loadVars>>

\* The two conclusive returns of the loop.
ScanConclusive ==
  /\ pc = "scan"
  /\ idx <= Len(rawLines)
  /\ LET header == matchMessageHeader(rawLines[idx])
         first == header.day
         second == header.month
     IN /\ header # NullHeader
        /\ \/ /\ first > 12 /\ second <= 12
              /\ determination' = Conclusive("DMY")
           \/ /\ ~(first > 12 /\ second <= 12)
              /\ second > 12 /\ first <= 12
              /\ determination' = Conclusive("MDY")
  /\ format' = ResolveFormat(dateFormatOverride, determination'.format)
  /\ idx' = 1
  /\ pc' = "loop"
  /\ UNCHANGED <<rawLines, dateFormatOverride, ambiguousSamples, messages, current,
                 result, renderVars, pickVars, loadVars>>
  /\ UNCHANGED <<statsVars, filterVars, renderVars, pickVars, loadVars>>

\* ambiguousSamples.push(header), and the break at the cap.
ScanAmbiguous ==
  /\ pc = "scan"
  /\ idx <= Len(rawLines)
  /\ LET header == matchMessageHeader(rawLines[idx]) IN
       /\ header # NullHeader
       /\ header.day <= 12 /\ header.month <= 12
       /\ ambiguousSamples' = Append(ambiguousSamples, header)
  /\ IF Len(ambiguousSamples') >= SampleCap
       THEN pc' = "resolve" /\ idx' = idx
       ELSE pc' = pc /\ idx' = idx + 1
  /\ UNCHANGED <<rawLines, dateFormatOverride, determination, format, messages,
                 current, result, renderVars, pickVars, loadVars>>
  /\ UNCHANGED <<statsVars, filterVars, renderVars, pickVars, loadVars>>

\* The loop ran out of lines.
ScanEnd ==
  /\ pc = "scan"
  /\ idx > Len(rawLines)
  /\ pc' = "resolve"
  /\ UNCHANGED <<rawLines, dateFormatOverride, idx, ambiguousSamples, determination,
                 format, messages, current, result, renderVars, pickVars, loadVars>>
  /\ UNCHANGED <<statsVars, filterVars, renderVars, pickVars, loadVars>>

\* The rest of determineDateFormat, and parseChat up to its own loop.
ScanResolve ==
  /\ pc = "resolve"
  /\ determination' = resolveSamples(ambiguousSamples)
  /\ format' = ResolveFormat(dateFormatOverride, determination'.format)
  /\ idx' = 1
  /\ pc' = "loop"
  /\ UNCHANGED <<rawLines, dateFormatOverride, ambiguousSamples, messages, current,
                 result, renderVars, pickVars, loadVars>>
  /\ UNCHANGED <<statsVars, filterVars, renderVars, pickVars, loadVars>>

HeaderLine ==
  /\ pc = "loop"
  /\ idx <= Len(rawLines)
  /\ LET header == matchMessageHeader(rawLines[idx]) IN
       /\ header # NullHeader
       /\ messages' = Flush(messages, current)
       /\ current' = OpenRecord(header, format)
  /\ idx' = idx + 1
  /\ UNCHANGED <<rawLines, dateFormatOverride, pc, ambiguousSamples, determination,
                 format, result, renderVars, pickVars, loadVars>>
  /\ UNCHANGED <<statsVars, filterVars, renderVars, pickVars, loadVars>>

ContinuationLine ==
  /\ pc = "loop"
  /\ idx <= Len(rawLines)
  /\ matchMessageHeader(rawLines[idx]) = NullHeader
  /\ current # NullMessage
  /\ current' = [current EXCEPT !.content = AppendLine(@, rawLines[idx].rest)]
  /\ idx' = idx + 1
  /\ UNCHANGED <<rawLines, dateFormatOverride, pc, ambiguousSamples, determination,
                 format, messages, result, renderVars, pickVars, loadVars>>
  /\ UNCHANGED <<statsVars, filterVars, renderVars, pickVars, loadVars>>

DiscardLine ==
  /\ pc = "loop"
  /\ idx <= Len(rawLines)
  /\ matchMessageHeader(rawLines[idx]) = NullHeader
  /\ current = NullMessage
  /\ idx' = idx + 1
  /\ UNCHANGED <<rawLines, dateFormatOverride, pc, ambiguousSamples, determination,
                 format, messages, current, result, renderVars, pickVars, loadVars>>
  /\ UNCHANGED <<statsVars, filterVars, renderVars, pickVars, loadVars>>

ParseFinish ==
  /\ pc = "loop"
  /\ idx > Len(rawLines)
  /\ messages' = Flush(messages, current)
  /\ current' = IF current = NullMessage THEN current
                ELSE [current EXCEPT !.content = Trim(@)]
  /\ result' = [messages |-> FilterValid(messages'),
                dateFormat |-> format,
                ambiguous |-> determination.ambiguous,
                candidates |-> determination.candidates,
                usedOverride |-> dateFormatOverride # Null]
  /\ pc' = "done"
  /\ UNCHANGED <<rawLines, dateFormatOverride, idx, ambiguousSamples, determination,
                 format, renderVars, pickVars, loadVars>>
  /\ UNCHANGED <<statsVars, filterVars, renderVars, pickVars, loadVars>>

-----------------------------------------------------------------------------
(* Statistics aggregator: computeStatistics.                               *)
(*                                                                         *)
(* Here a message's author is an atom and its content a record: the words  *)
(* of the text in order (joined by single spaces), and the numbers of      *)
(* whitespace characters before the first and after the last; a pictograph *)
(* is a word of its own, written as a name in parentheses.  A JS object    *)
(* or Map is a function on its keys; where the code depends on the order   *)
(* the keys were inserted in, the order is kept as a sequence.  Averages   *)
(* are held in the unit they are rounded to (tenths, hundredths).          *)

\* An option that was not given (undefined or null).
Unset == -1

NoHour == -1
EmptyContent == [lead |-> 0, words |-> <<>>, trail |-> 0]
NoPreviousMessage == [timestamp |-> NoDate, author |-> "", content |-> EmptyContent,
                      type |-> Null]
NullLongest == [timestamp |-> NoDate, content |-> EmptyContent, wordCount |-> 0,
                charCount |-> 0]
NullBusiest == [date |-> NoDate, count |-> 0]
NullRange == [start |-> NoDate, end |-> NoDate]
NullStats == [totalMessages |-> -1]

MapGet(m, k, default) == IF k \in DOMAIN m THEN m[k] ELSE default
MapPut(m, k, v) == [x \in (DOMAIN m) \cup {k} |-> IF x = k THEN v ELSE m[x]]
EmptyMap == <<>>

\* formatLocalDateKey / toDateString: the calendar day, as a day number.
DayOf(t) == t \div 86400
\* getHours()
HourOf(t) == (t % 86400) \div 3600

\* The stop words among the words the enumerated contents use.
stopWords == {"the", "and", "you", "ok"}

\* Words that carry one of the media-omission markers.
MediaMarkers == {"<media", "omitted>", "omitted"}

\* Words that are one Extended_Pictographic character, of two code units.
Pictographs == {"(grin)", "(heart)"}

ToLowerCase(w) ==
  IF w = "<Media" THEN "<media" ELSE IF w = "Hello" THEN "hello" ELSE w

\* What is left of a lower-cased word once every character other than a
\* letter, a digit or an apostrophe is blanked and the apostrophes dropped.
Letters(w) ==
  IF w \in Pictographs THEN ""
  ELSE IF w = "<media" THEN "media" ELSE IF w = "omitted>" THEN "omitted"
  ELSE IF w = "hi!" THEN "hi" ELSE IF w = "?" THEN "" ELSE w

\* The length of a word, in UTF-16 code units.
CodeUnits(w) == IF w \in Pictographs THEN 2 ELSE Len(w)

RECURSIVE SumLengths(_)
SumLengths(ws) == IF ws = <<>> THEN 0 ELSE CodeUnits(Head(ws)) + SumLengths(Tail(ws))

\* content.trim().length
TrimmedLength(content) ==
  IF content.words = <<>> THEN 0
  ELSE SumLengths(content.words) + Len(content.words) - 1

\* content.length
RawLength(content) ==
  IF content.words = <<>> THEN content.lead + content.trail
  ELSE content.lead + TrimmedLength(content) + content.trail

\* The test for '<media' alone, on the text as written.
isMediaMessageAsWritten(content) ==
  \E k \in 1..Len(content.words) : content.words[k] = "<media"

isMediaMessage(content) ==
  \E k \in 1..Len(content.words) : ToLowerCase(content.words[k]) \in MediaMarkers

extractWords(content) ==
  SelectSeq([k \in 1..Len(content.words) |-> Letters(ToLowerCase(content.words[k]))],
            LAMBDA w : Len(w) > 1 /\ w \notin stopWords)

extractEmojis(content) == SelectSeq(content.words, LAMBDA w : w \in Pictographs)

\* Math.round(num / den * 10 ** digits), for num >= 0 and den > 0: the
\* rounded quotient in units of 10 ** -digits.
round(num, den, digits) ==
  LET factor == IF digits = 2 THEN 100 ELSE 10
  IN  (2 * num * factor + den) \div (2 * den)

RECURSIVE InsertByTimestamp(_, _)
InsertByTimestamp(sorted, m) ==
  IF sorted = <<>> THEN <<m>>
  ELSE IF sorted[Len(sorted)].timestamp <= m.timestamp THEN Append(sorted, m)
  ELSE Append(InsertByTimestamp(SubSeq(sorted, 1, Len(sorted) - 1), m),
              sorted[Len(sorted)])

\* The copy left as it was given: [...messages] without the sort.
CopyUnsorted(msgs) == msgs

RECURSIVE SortByTimestamp(_)
\* [...messages].sort((a, b) => a.timestamp - b.timestamp): a stable sort.
SortByTimestamp(msgs) ==
  IF msgs = <<>> THEN <<>>
  ELSE InsertByTimestamp(SortByTimestamp(SubSeq(msgs, 1, Len(msgs) - 1)),
                         msgs[Len(msgs)])

baseResponseGapOf(options) ==
  IF options.responseGapMinutes # Unset /\ options.responseGapMinutes > 0
    THEN options.responseGapMinutes ELSE Unset

overnightBufferOf(options) ==
  IF options.overnightBufferMinutes # Unset /\ options.overnightBufferMinutes > 0
    THEN options.overnightBufferMinutes ELSE 0

\* messagesByDate.set(dateKey, (messagesByDate.get(dateKey) || 0) + 1) on a
\* Map, whose keys keep the order of their first insertion.
\* BumpDate entering a day once and leaving its count at 1.
BumpDateOnce(byDate, dateKey) ==
  IF \E i \in 1..Len(byDate) : byDate[i].date = dateKey
    THEN byDate
    ELSE Append(byDate, [date |-> dateKey, count |-> 1])

BumpDate(byDate, dateKey) ==
  IF \E i \in 1..Len(byDate) : byDate[i].date = dateKey
    THEN [i \in 1..Len(byDate) |->
            IF byDate[i].date = dateKey
              THEN [byDate[i] EXCEPT !.count = @ + 1] ELSE byDate[i]]
    ELSE Append(byDate, [date |-> dateKey, count |-> 1])

\* The words of the trimmed content: split(/\s+/).filter(Boolean).length
DescriptiveWordCount(content) == Len(content.words)

\* The last tie-break the other way round: the later message wins.
shouldReplaceLater(currentLongest, wordCount, charCount, timestamp) ==
  \/ currentLongest = NullLongest
  \/ wordCount > currentLongest.wordCount
  \/ (wordCount = currentLongest.wordCount /\ charCount > currentLongest.charCount)
  \/ (wordCount = currentLongest.wordCount /\ charCount = currentLongest.charCount
        /\ timestamp > currentLongest.timestamp)

shouldReplace(currentLongest, wordCount, charCount, timestamp) ==
  \/ currentLongest = NullLongest
  \/ wordCount > currentLongest.wordCount
  \/ (wordCount = currentLongest.wordCount /\ charCount > currentLongest.charCount)
  \/ (wordCount = currentLongest.wordCount /\ charCount = currentLongest.charCount
        /\ timestamp < currentLongest.timestamp)

\* The comparison of the gap with the allowance the other way round.
GapQualifiesFrom(message, previousMessage, baseResponseGap, overnightBuffer) ==
  LET delta == message.timestamp - previousMessage.timestamp
      crossesOvernight == DayOf(message.timestamp) # DayOf(previousMessage.timestamp)
      allowance == IF baseResponseGap = Unset THEN Unset
                   ELSE baseResponseGap + (IF crossesOvernight THEN overnightBuffer ELSE 0)
  IN  allowance = Unset \/ delta >= allowance * 60

\* delta <= allowance, with delta in seconds and the allowance in minutes.
\* The test with < for <=.
GapQualifiesBelow(message, previousMessage, baseResponseGap, overnightBuffer) ==
  LET delta == message.timestamp - previousMessage.timestamp
      crossesOvernight == DayOf(message.timestamp) # DayOf(previousMessage.timestamp)
      allowance == IF baseResponseGap = Unset THEN Unset
                   ELSE baseResponseGap + (IF crossesOvernight THEN overnightBuffer ELSE 0)
  IN  allowance = Unset \/ delta < allowance * 60

GapQualifies(message, previousMessage, baseResponseGap, overnightBuffer) ==
  LET delta == message.timestamp - previousMessage.timestamp
      crossesOvernight == DayOf(message.timestamp) # DayOf(previousMessage.timestamp)
      allowance == IF baseResponseGap = Unset THEN Unset
                   ELSE baseResponseGap + (IF crossesOvernight THEN overnightBuffer ELSE 0)
  IN  allowance = Unset \/ delta <= allowance * 60

InitialTally ==
  [participants |-> <<>>,
   messageCountByParticipant |-> EmptyMap,
   wordCountByParticipant |-> EmptyMap,
   totalWordsByParticipant |-> EmptyMap,
   longestMessageByParticipant |-> EmptyMap,
   messagesByDate |-> <<>>,
   messagesByHour |-> [h \in 0..23 |-> 0],
   words |-> <<>>,
   emojis |-> <<>>,
   responseTracking |-> EmptyMap,
   totalMessages |-> 0,
   totalWords |-> 0,
   mediaCount |-> 0,
   systemCount |-> 0,
   previousMessage |-> NoPreviousMessage]

\* One iteration of `for (const message of sortedMessages)'.
Tally(t, message, baseResponseGap, overnightBuffer) ==
  IF message.type = "system"
    THEN [t EXCEPT !.systemCount = @ + 1, !.previousMessage = message]
  ELSE
    LET author == message.author
        content == message.content
        charCount == TrimmedLength(content)
        mediaMessage == isMediaMessage(content)
        wordList == IF mediaMessage THEN <<>> ELSE extractWords(content)
        descriptiveWordCount == IF mediaMessage THEN 0 ELSE DescriptiveWordCount(content)
        currentLongest == MapGet(t.longestMessageByParticipant, author, NullLongest)
        longest ==
          IF ~mediaMessage /\ (descriptiveWordCount > 0 \/ charCount > 0)
               /\ shouldReplace(currentLongest, descriptiveWordCount, charCount,
                                message.timestamp)
            THEN [timestamp |-> message.timestamp, content |-> content,
                  wordCount |-> descriptiveWordCount, charCount |-> charCount]
            ELSE currentLongest
        previous == t.previousMessage
        responds == /\ previous # NoPreviousMessage
                    /\ previous.type = "message"
                    /\ previous.author # author
        tracked == MapGet(t.responseTracking, author, <<>>)
    IN  [participants |->
           IF \E i \in 1..Len(t.participants) : t.participants[i] = author
             THEN t.participants ELSE Append(t.participants, author),
         messageCountByParticipant |->
           MapPut(t.messageCountByParticipant, author,
                  MapGet(t.messageCountByParticipant, author, 0) + 1),
         wordCountByParticipant |->
           MapPut(t.wordCountByParticipant, author,
                  MapGet(t.wordCountByParticipant, author, 0) + Len(wordList)),
         totalWordsByParticipant |->
           MapPut(t.totalWordsByParticipant, author,
                  MapGet(t.totalWordsByParticipant, author, 0)
                    + (IF mediaMessage THEN 0 ELSE RawLength(content))),
         longestMessageByParticipant |->
           MapPut(t.longestMessageByParticipant, author, longest),
         messagesByDate |-> BumpDate(t.messagesByDate, DayOf(message.timestamp)),
         messagesByHour |->
           [t.messagesByHour EXCEPT ![HourOf(message.timestamp)] = @ + 1],
         words |-> t.words \o wordList,
         emojis |-> t.emojis \o (IF mediaMessage THEN <<>> ELSE extractEmojis(content)),
         responseTracking |->
           IF ~responds THEN t.responseTracking
           ELSE MapPut(t.responseTracking, author,
                       IF GapQualifies(message, previous, baseResponseGap, overnightBuffer)
                         THEN Append(tracked, message.timestamp - previous.timestamp)
                         ELSE tracked),
         totalMessages |-> t.totalMessages + 1,
         totalWords |-> t.totalWords + Len(wordList),
         mediaCount |-> t.mediaCount + (IF mediaMessage THEN 1 ELSE 0),
         systemCount |-> t.systemCount,
         previousMessage |-> message]

RECURSIVE TallyAll(_, _, _, _)
\* The whole loop over the first n sorted messages.
TallyAll(sortedMessages, n, baseResponseGap, overnightBuffer) ==
  IF n = 0 THEN InitialTally
  ELSE Tally(TallyAll(sortedMessages, n - 1, baseResponseGap, overnightBuffer),
             sortedMessages[n], baseResponseGap, overnightBuffer)

\* The tally computeStatistics ends its loop with.
StatisticsTally(msgs, options) ==
  LET sortedMessages == SortByTimestamp(msgs)
  IN  TallyAll(sortedMessages, Len(sortedMessages), baseResponseGapOf(options),
               overnightBufferOf(options))

RECURSIVE Sum(_)
Sum(q) == IF q = <<>> THEN 0 ELSE Head(q) + Sum(Tail(q))

RECURSIVE InsertByCount(_, _, _)
InsertByCount(sorted, x, count) ==
  IF sorted = <<>> THEN <<x>>
  ELSE IF count[sorted[Len(sorted)]] >= count[x] THEN Append(sorted, x)
  ELSE Append(InsertByCount(SubSeq(sorted, 1, Len(sorted) - 1), x, count),
              sorted[Len(sorted)])

RECURSIVE SortByCountDescending(_, _)
\* sort((a, b) => count[b] - count[a]): stable, the greater count first.
SortByCountDescending(keys, count) ==
  IF keys = <<>> THEN <<>>
  ELSE InsertByCount(SortByCountDescending(SubSeq(keys, 1, Len(keys) - 1), count),
                     keys[Len(keys)], count)

RECURSIVE DistinctInOrder(_)
\* The keys of an object filled in the order of q: each value of q once,
\* at its first occurrence.
DistinctInOrder(q) ==
  IF q = <<>> THEN <<>>
  ELSE LET seen == DistinctInOrder(SubSeq(q, 1, Len(q) - 1))
           x == q[Len(q)]
       IN  IF \E i \in 1..Len(seen) : seen[i] = x THEN seen ELSE Append(seen, x)

TopWordsLimit == 15
TopEmojisLimit == 10

\* The entries of the frequency table of `items', the most frequent first
\* and otherwise in the order of first occurrence, cut to `limit' entries.
TopEntries(items, limit) ==
  LET keys == DistinctInOrder(items)
      count == [w \in {items[i] : i \in 1..Len(items)} |->
                  Cardinality({i \in 1..Len(items) : items[i] = w})]
      ranked == SortByCountDescending(keys, count)
      kept == SubSeq(ranked, 1, IF Len(ranked) < limit THEN Len(ranked) ELSE limit)
  IN  [i \in 1..Len(kept) |-> <<kept[i], count[kept[i]]>>]

RECURSIVE SortDates(_)
\* Array.from(messagesByDate.keys()).sort()
SortDates(days) ==
  IF days = {} THEN <<>>
  ELSE LET first == CHOOSE d \in days : \A e \in days : d <= e
       IN  <<first>> \o SortDates(days \ {first})

RECURSIVE StreakLoop(_, _, _, _, _, _)
\* StreakLoop with `>=' for `>': a later run of the same length replaces
\* the one on record.
StreakLoopLatest(dates, i, bestLength, currentLength, bestRange, currentStart) ==
  IF i > Len(dates)
    THEN IF currentLength >= bestLength
           THEN [length |-> currentLength,
                 range |-> [start |-> currentStart, end |-> dates[Len(dates)]]]
           ELSE [length |-> bestLength, range |-> bestRange]
  ELSE IF dates[i] - dates[i - 1] = 1
    THEN StreakLoop(dates, i + 1, bestLength, currentLength + 1, bestRange, currentStart)
  ELSE IF currentLength >= bestLength
    THEN StreakLoop(dates, i + 1, currentLength, 1,
                    [start |-> currentStart, end |-> dates[i - 1]], dates[i])
  ELSE StreakLoop(dates, i + 1, bestLength, 1, bestRange, dates[i])

StreakLoop(dates, i, bestLength, currentLength, bestRange, currentStart) ==
  IF i > Len(dates)
    THEN IF currentLength > bestLength
           THEN [length |-> currentLength,
                 range |-> [start |-> currentStart, end |-> dates[Len(dates)]]]
           ELSE [length |-> bestLength, range |-> bestRange]
  ELSE IF dates[i] - dates[i - 1] = 1
    THEN StreakLoop(dates, i + 1, bestLength, currentLength + 1, bestRange, currentStart)
  ELSE IF currentLength > bestLength
    THEN StreakLoop(dates, i + 1, currentLength, 1,
                    [start |-> currentStart, end |-> dates[i - 1]], dates[i])
  ELSE StreakLoop(dates, i + 1, bestLength, 1, bestRange, dates[i])

calculateStreaks(byDate) ==
  LET dates == SortDates({byDate[i].date : i \in 1..Len(byDate)})
  IN  IF dates = <<>> THEN [length |-> 0, range |-> NullRange]
      ELSE StreakLoop(dates, 2, 1, 1, [start |-> dates[1], end |-> dates[1]], dates[1])

RECURSIVE BusiestDayLoop(_, _, _)
BusiestDayLoop(byDate, i, best) ==
  IF i > Len(byDate) THEN best
  ELSE BusiestDayLoop(byDate, i + 1,
         IF byDate[i].count > best.count THEN byDate[i] ELSE best)

RECURSIVE BusiestHourLoop(_, _, _, _)
\* BusiestHourLoop with `>=' for `>': a later hour with the same count
\* replaces the one on record.
BusiestHourLoopLatest(byHour, hour, busiestHour, busiestHourCount) ==
  IF hour > 23 THEN (IF busiestHourCount = 0 THEN NoHour ELSE busiestHour)
  ELSE IF byHour[hour] >= busiestHourCount
    THEN BusiestHourLoop(byHour, hour + 1, hour, byHour[hour])
  ELSE BusiestHourLoop(byHour, hour + 1, busiestHour, busiestHourCount)

BusiestHourLoop(byHour, hour, busiestHour, busiestHourCount) ==
  IF hour > 23 THEN (IF busiestHourCount = 0 THEN NoHour ELSE busiestHour)
  ELSE IF byHour[hour] > busiestHourCount
    THEN BusiestHourLoop(byHour, hour + 1, hour, byHour[hour])
  ELSE BusiestHourLoop(byHour, hour + 1, busiestHour, busiestHourCount)

\* A JS number held with its type, for a value whose readers ask for its
\* properties (a number has none).
Number(n) == [typeof |-> "number", value |-> n]

\* The object returned for no messages with the busiest hour of the full
\* path's start, 0, in place of null.
EmptyStatisticsHourZero(options) ==
  [totalMessages |-> 0,
   totalWords |-> 0,
   overallAverageWordsPerMessage |-> 0,
   participants |-> <<>>,
   messageCountByParticipant |-> EmptyMap,
   wordCountByParticipant |-> EmptyMap,
   averageWordsPerMessage |-> EmptyMap,
   mediaCount |-> 0,
   systemCount |-> 0,
   firstMessageDate |-> NoDate,
   lastMessageDate |-> NoDate,
   messagesByDate |-> <<>>,
   messagesByHour |-> [h \in 0..23 |-> 0],
   topWords |-> <<>>,
   topEmojis |-> <<>>,
   averageMessageLength |-> EmptyMap,
   busiestDay |-> NullBusiest,
   busiestHour |-> 0,
   longestStreak |-> 0,
   longestStreakRange |-> NullRange,
   responseTimes |-> EmptyMap,
   longestMessageByParticipant |-> EmptyMap,
   responseGapMinutes |-> baseResponseGapOf(options),
   responseGapOvernightBufferMinutes |->
     IF baseResponseGapOf(options) # Unset THEN overnightBufferOf(options) ELSE 0]

EmptyStatistics(options) ==
  [totalMessages |-> 0,
   totalWords |-> 0,
   overallAverageWordsPerMessage |-> 0,
   participants |-> <<>>,
   messageCountByParticipant |-> EmptyMap,
   wordCountByParticipant |-> EmptyMap,
   averageWordsPerMessage |-> EmptyMap,
   mediaCount |-> 0,
   systemCount |-> 0,
   firstMessageDate |-> NoDate,
   lastMessageDate |-> NoDate,
   messagesByDate |-> <<>>,
   messagesByHour |-> [h \in 0..23 |-> 0],
   topWords |-> <<>>,
   topEmojis |-> <<>>,
   averageMessageLength |-> EmptyMap,
   busiestDay |-> NullBusiest,
   busiestHour |-> NoHour,
   longestStreak |-> 0,
   longestStreakRange |-> NullRange,
   responseTimes |-> EmptyMap,
   longestMessageByParticipant |-> EmptyMap,
   responseGapMinutes |-> baseResponseGapOf(options),
   responseGapOvernightBufferMinutes |->
     IF baseResponseGapOf(options) # Unset THEN overnightBufferOf(options) ELSE 0]

computeStatistics(msgs, options) ==
  IF msgs = <<>> THEN EmptyStatistics(options)
  ELSE
    LET sortedMessages == SortByTimestamp(msgs)
        t == StatisticsTally(msgs, options)
        participants == SortByCountDescending(t.participants, t.messageCountByParticipant)
        authors == {participants[i] : i \in 1..Len(participants)}
        responders == {a \in DOMAIN t.responseTracking : t.responseTracking[a] # <<>>}
    IN  [totalMessages |-> t.totalMessages,
         totalWords |-> t.totalWords,
         overallAverageWordsPerMessage |->
           IF t.totalMessages # 0 THEN round(t.totalWords, t.totalMessages, 1) ELSE 0,
         participants |-> participants,
         messageCountByParticipant |-> t.messageCountByParticipant,
         wordCountByParticipant |-> t.wordCountByParticipant,
         averageWordsPerMessage |->
           [a \in authors |->
              round(t.wordCountByParticipant[a], t.messageCountByParticipant[a], 1)],
         mediaCount |-> t.mediaCount,
         systemCount |-> t.systemCount,
         firstMessageDate |-> sortedMessages[1].timestamp,
         lastMessageDate |-> sortedMessages[Len(sortedMessages)].timestamp,
         messagesByDate |-> t.messagesByDate,
         messagesByHour |-> t.messagesByHour,
         topWords |-> TopEntries(t.words, TopWordsLimit),
         topEmojis |-> TopEntries(t.emojis, TopEmojisLimit),
         averageMessageLength |->
           [a \in authors |->
              round(t.totalWordsByParticipant[a], t.messageCountByParticipant[a], 1)],
         busiestDay |-> BusiestDayLoop(t.messagesByDate, 1, NullBusiest),
         busiestHour |-> BusiestHourLoop(t.messagesByHour, 0, NoHour, 0),
         longestStreak |-> calculateStreaks(t.messagesByDate).length,
         longestStreakRange |-> calculateStreaks(t.messagesByDate).range,
         responseTimes |->
           [a \in responders |->
              Number(round(Sum(t.responseTracking[a]),
                           60 * Len(t.responseTracking[a]), 2))],
         longestMessageByParticipant |-> t.longestMessageByParticipant,
         responseGapMinutes |-> baseResponseGapOf(options),
         responseGapOvernightBufferMinutes |->
           IF baseResponseGapOf(options) # Unset THEN overnightBufferOf(options) ELSE 0]

-----------------------------------------------------------------------------
(* Inputs.                                                                 *)

RECURSIVE SeqsUpTo(_, _)
\* The sequences over S of length at most n.
SeqsUpTo(S, n) ==
  IF n = 0 THEN {<<>>}
  ELSE LET shorter == SeqsUpTo(S, n - 1) IN
       shorter \cup {Append(q, x) : q \in {r \in shorter : Len(r) = n - 1}, x \in S}

Repeat(x, n) == [k \in 1..n |-> x]

Morning == [form |-> "hm", h |-> 9, mi |-> 5, s |-> 0, period |-> "AM"]

HeaderLineOf(layout, d, m, rest) ==
  [layout |-> layout, day |-> d, month |-> m, year |-> 23, time |-> Morning,
   rest |-> rest]

TextLine(text) ==
  [layout |-> "none", day |-> 0, month |-> 0, year |-> 0, time |-> NoTime,
   rest |-> text]

PlainRest == <<"a", Colon, Space, "b">>

\* Day/month token pairs: ambiguous, conclusive either way, both above 12,
\* and pairs that name no calendar date.
AmbiguousPairs == {<<1, 2>>, <<2, 1>>, <<2, 3>>, <<3, 3>>, <<1, 4>>, <<0, 5>>}
DatePairs == AmbiguousPairs \cup {<<13, 1>>, <<1, 13>>, <<13, 13>>, <<31, 2>>}

DateLines ==
  {HeaderLineOf("bracket", p[1], p[2], PlainRest) : p \in DatePairs}
    \cup {HeaderLineOf("dash", 1, 2, <<"b">>), TextLine(<<"a">>), TextLine(<<Space>>)}

DateInputs == SeqsUpTo(DateLines, MaxLines)

\* Time tokens: hours and minutes within and beyond the clock's range, with
\* and without seconds, with a marker in either case or none, and one token
\* that is no time.
TimeTokens ==
  [form : {"hm", "hms"}, h : {0, 1, 11, 12, 13, 23, 25}, mi : {5, 75}, s : {7},
   period : {"", "AM", "PM", "am", "Pm"}]
    \cup {NoTime}

\* One line in either layout with each of the tokens.
TimeInputs ==
  {<<[layout |-> layout, day |-> 3, month |-> 2, year |-> 23, time |-> t,
      rest |-> PlainRest]>> : layout \in {"bracket", "dash"}, t \in TimeTokens}

RestChars == {"a", Colon, Space, Tab, Quote}

TextInputs ==
  {<<HeaderLineOf("bracket", 1, 2, r)>> \o c :
     r \in SeqsUpTo(RestChars, MaxRest) \ {<<>>},
     c \in SeqsUpTo({TextLine(<<"a">>), TextLine(<<Space, "a", Space>>)}, 1)}

\* Transcripts longer than the resolver's sample cap: a run of one ambiguous
\* header, optionally after another one and optionally followed by one line.
RunLengths == {SampleCap - 2, SampleCap - 1, SampleCap}

LongInputs ==
  {pre \o Repeat(HeaderLineOf("bracket", p[1], p[2], PlainRest), n) \o post :
     pre \in {<<>>, <<HeaderLineOf("bracket", 1, 1, PlainRest)>>},
     p \in {<<2, 3>>, <<1, 2>>},
     n \in RunLengths,
     post \in SeqsUpTo(DateLines, 1)}

Overrides == {Null, "DMY", "MDY"}

\* No call of computeStatistics has been made.
NoOptions == [responseGapMinutes |-> Unset, overnightBufferMinutes |-> Unset]
NoCall == [messages |-> <<>>, options |-> NoOptions, stats |-> NullStats,
           samples |-> EmptyMap]

StatsIdle ==
  /\ filteredMessages = <<>>
  /\ responseOptions = NoOptions
  /\ stats = NullStats
  /\ responseSamples = EmptyMap
  /\ before = NoCall
  /\ call = "none"

ParseIdle ==
  /\ rawLines = <<>>
  /\ dateFormatOverride = Null
  /\ pc = "idle"
  /\ idx = 0
  /\ ambiguousSamples = <<>>
  /\ determination = NullDetermination
  /\ format = Null
  /\ messages = <<>>
  /\ current = NullMessage
  /\ result = NullResult

FilterIdle ==
  /\ filterableMessages = <<>>
  /\ startDate = <<>>
  /\ endDate = <<>>
  /\ filteredSubset = <<>>

RenderIdle ==
  /\ uiStats = NullStats
  /\ responseTimesList = <<>>
  /\ responseCutoffNote = <<>>
  /\ insightList = <<>>

PickIdle ==
  /\ rawCandidates = <<>>
  /\ selection = [type |-> "unset", candidates |-> <<>>]

LoadIdle ==
  /\ fileHelper = ""
  /\ rawChatText = <<>>
  /\ allMessages = <<>>
  /\ fullStats = NullStats
  /\ loadStatus = ""
  /\ loads = {}
  /\ selected = <<>>

Init ==
  /\ \/ rawLines \in DateInputs /\ dateFormatOverride \in Overrides
     \/ rawLines \in TextInputs /\ dateFormatOverride = Null
     \/ rawLines \in LongInputs /\ dateFormatOverride \in {Null, "MDY"}
     \/ rawLines \in TimeInputs /\ dateFormatOverride \in {Null, "MDY"}
  /\ pc = "start"
  /\ idx = 0
  /\ ambiguousSamples = <<>>
  /\ determination = NullDetermination
  /\ format = Null
  /\ messages = <<>>
  /\ current = NullMessage
  /\ result = NullResult
  /\ StatsIdle
  /\ FilterIdle
  /\ RenderIdle
  /\ PickIdle
  /\ LoadIdle

Next ==
  \/ ParseEmpty
  \/ ParseBegin
  \/ ScanSkip
  \/ ScanConclusive
  \/ ScanAmbiguous
  \/ ScanEnd
  \/ ScanResolve
  \/ HeaderLine
  \/ ContinuationLine
  \/ DiscardLine
  \/ ParseFinish

Spec == Init /\ [][Next]_vars

-----------------------------------------------------------------------------
(* Calls of computeStatistics.                                             *)

MaxMessages == 3     \* longest enumerated message array

Evening == JSDate(2023, 0, 1, 21, 0, 0)
LaterThatEvening == JSDate(2023, 0, 1, 21, 10, 0)
NextMorning == JSDate(2023, 0, 2, 6, 30, 0)

Greeting == [lead |-> 0, words |-> <<"Hello", "world">>, trail |-> 0]
Reply == [lead |-> 0, words |-> <<"ok", "(grin)">>, trail |-> 0]
Placeholder == [lead |-> 0, words |-> <<"<Media", "omitted>">>, trail |-> 0]
Notice == [lead |-> 0, words |-> <<"joined">>, trail |-> 0]

ChatMessages ==
  [timestamp : {Evening, LaterThatEvening, NextMorning}, author : {"Alice"},
   content : {Greeting}, type : {"message"}]
    \cup [timestamp : {Evening, LaterThatEvening, NextMorning}, author : {"Bob"},
          content : {Reply}, type : {"message"}]
    \cup [timestamp : {LaterThatEvening}, author : {"System"}, content : {Notice},
          type : {"system"}]

\* Alice and Bob writing in turn, Alice first, from 21:00 on one day: the
\* message after gaps[k] comes that many minutes after the one before it.
RECURSIVE InstantAfter(_, _)
InstantAfter(gaps, k) ==
  IF k = 0 THEN Evening ELSE InstantAfter(gaps, k - 1) + 60 * gaps[k]

Exchange(gaps) ==
  [k \in 1..Len(gaps) + 1 |->
     [timestamp |-> InstantAfter(gaps, k - 1),
      author |-> IF k % 2 = 1 THEN "Alice" ELSE "Bob",
      content |-> IF k % 2 = 1 THEN Greeting ELSE Reply,
      type |-> "message"]]

\* Replies at a fixed ten minutes, and at the gaps of the median test.
GapRuns == {<<10, 10, 10, 10>>, <<5, 4, 6, 3, 1, 6>>}

ExchangeInputs ==
  UNION {{Exchange(SubSeq(gaps, 1, n)) : n \in 1..Len(gaps)} : gaps \in GapRuns}

StatsInputs == SeqsUpTo(ChatMessages, MaxMessages) \cup ExchangeInputs

\* Values of the response-gap field, in minutes, and of the overnight buffer.
GapValues == {0, 5, 60}
BufferValues == {Unset, 500}

Reverse(q) == [i \in 1..Len(q) |-> q[Len(q) + 1 - i]]

\* `messages.sort(...)': the argument itself sorted.
messagesSortedInPlace(msgs) == SortByTimestamp(msgs)

\* The array passed as `messages' when computeStatistics has returned: the
\* array sorted is the copy [...messages], the loops read the copy's elements
\* and assign to none of their properties.
messagesAfterStatistics(msgs) == msgs

ThisCall ==
  [messages |-> filteredMessages, options |-> responseOptions, stats |-> stats,
   samples |-> responseSamples]

StatsInit ==
  /\ ParseIdle
  /\ FilterIdle
  /\ RenderIdle
  /\ PickIdle
  /\ LoadIdle
  /\ filteredMessages \in StatsInputs
  /\ responseOptions \in [responseGapMinutes : {Unset},
                          overnightBufferMinutes : BufferValues]
  /\ stats = NullStats
  /\ responseSamples = EmptyMap
  /\ before = NoCall
  /\ call = "none"

\* stats = computeStatistics(filteredMessages, options)
RefreshStats ==
  /\ call = "none"
  /\ stats' = computeStatistics(filteredMessages, responseOptions)
  /\ responseSamples' = StatisticsTally(filteredMessages, responseOptions).responseTracking
  /\ filteredMessages' = messagesAfterStatistics(filteredMessages)
  /\ call' = "refresh"
  /\ UNCHANGED <<responseOptions, before, parseVars, filterVars, renderVars, pickVars, loadVars>>

\* The same call again after responseGapMinutes was given another value.
ChangeResponseGap ==
  /\ call \in {"refresh", "gap"}
  /\ \E gap \in GapValues \cup {Unset} :
       /\ gap # responseOptions.responseGapMinutes
       /\ responseOptions' = [responseOptions EXCEPT !.responseGapMinutes = gap]
  /\ before' = ThisCall
  /\ stats' = computeStatistics(filteredMessages, responseOptions')
  /\ responseSamples' = StatisticsTally(filteredMessages, responseOptions').responseTracking
  /\ filteredMessages' = messagesAfterStatistics(filteredMessages)
  /\ call' = "gap"
  /\ UNCHANGED <<parseVars, filterVars, renderVars, pickVars, loadVars>>

\* The same call again with the message array in the opposite order.
RefreshReversed ==
  /\ call = "refresh"
  /\ filteredMessages' = messagesAfterStatistics(Reverse(filteredMessages))
  /\ before' = ThisCall
  /\ stats' = computeStatistics(filteredMessages', responseOptions)
  /\ responseSamples' = StatisticsTally(filteredMessages', responseOptions).responseTracking
  /\ call' = "reversed"
  /\ UNCHANGED <<responseOptions, parseVars, filterVars, renderVars, pickVars, loadVars>>

\* The same call again with one more message, a media placeholder, put
\* before or after the others.
RefreshWithMedia ==
  /\ call = "refresh"
  /\ \E author \in {"Alice", "Bob"}, timestamp \in {Evening, NextMorning} :
       LET placeholder == [timestamp |-> timestamp, author |-> author,
                           content |-> Placeholder, type |-> "message"]
       IN  \/ filteredMessages'
                = messagesAfterStatistics(Append(filteredMessages, placeholder))
           \/ filteredMessages'
                = messagesAfterStatistics(<<placeholder>> \o filteredMessages)
  /\ before' = ThisCall
  /\ stats' = computeStatistics(filteredMessages', responseOptions)
  /\ responseSamples' = StatisticsTally(filteredMessages', responseOptions).responseTracking
  /\ call' = "media"
  /\ UNCHANGED <<responseOptions, parseVars, filterVars, renderVars, pickVars, loadVars>>

StatsNext ==
  \/ RefreshStats
  \/ ChangeResponseGap
  \/ RefreshReversed
  \/ RefreshWithMedia

StatsSpec == StatsInit /\ [][StatsNext]_vars

-----------------------------------------------------------------------------
(* Calls of computeStatistics on messages of varied content.               *)

MaxVaried == 2       \* longest enumerated array of varied messages

Turned == [lead |-> 0, words |-> <<"world", "Hello">>, trail |-> 0]
Short == [lead |-> 0, words |-> <<"hi!">>, trail |-> 0]
Padded == [lead |-> 2, words |-> <<"Hello">>, trail |-> 3]
Blank == [lead |-> 1, words |-> <<>>, trail |-> 0]

VariedMessages ==
  [timestamp : {Evening, LaterThatEvening}, author : {"Alice"},
   content : {Greeting, Turned, Short, Padded, Blank, Placeholder}, type : {"message"}]
    \cup [timestamp : {Evening, LaterThatEvening}, author : {"Bob"},
          content : {Reply}, type : {"message"}]

VariedInputs == SeqsUpTo(VariedMessages, MaxVaried)

WordsInit ==
  /\ ParseIdle
  /\ FilterIdle
  /\ RenderIdle
  /\ PickIdle
  /\ LoadIdle
  /\ filteredMessages \in VariedInputs
  /\ responseOptions = NoOptions
  /\ stats = NullStats
  /\ responseSamples = EmptyMap
  /\ before = NoCall
  /\ call = "none"

WordsNext ==
  \/ RefreshStats
  \/ RefreshWithMedia

WordsSpec == WordsInit /\ [][WordsNext]_vars

-----------------------------------------------------------------------------
(* Vocabulary of the properties: the transcript described line by line,    *)
(* without reference to the parser's loop.                                 *)

Done == pc = "done"
NoOverride == dateFormatOverride = Null

\* The headers of the transcript, in document order.
Headers ==
  LET lines == SelectSeq(rawLines, LAMBDA l : matchMessageHeader(l) # NullHeader)
  IN  [k \in 1..Len(lines) |-> matchMessageHeader(lines[k])]

IsConclusive(h) == (h.day > 12 /\ h.month <= 12) \/ (h.month > 12 /\ h.day <= 12)
IsAmbiguousHeader(h) == h.day <= 12 /\ h.month <= 12
ImpliedFormat(h) == IF h.day > 12 THEN "DMY" ELSE "MDY"

ConclusiveRanks == {k \in 1..Len(Headers) : IsConclusive(Headers[k])}
AmbiguousRanks == {k \in 1..Len(Headers) : IsAmbiguousHeader(Headers[k])}

Least(S) == CHOOSE x \in S : \A y \in S : x <= y

\* The instants of the first n headers read with fmt, in document order.
ReadAs(fmt, n) ==
  [k \in 1..(IF n < Len(Headers) THEN n ELSE Len(Headers)) |-> HeaderDate(Headers[k], fmt)]

NonDecreasing(ts) == \A k \in 1..(Len(ts) - 1) : ts[k] <= ts[k + 1]
HasDecrease(ts) == \E k \in 1..(Len(ts) - 1) : ts[k + 1] < ts[k]

DaysInMonth(y, m0) ==
  IF m0 = 11 THEN 31 ELSE DaysBeforeMonth(y, m0 + 1) - DaysBeforeMonth(y, m0)

\* The header's tokens, read with fmt, name no day of the calendar.
ImpossibleDate(h, fmt) ==
  LET d == IF fmt = "MDY" THEN h.month ELSE h.day
      m == IF fmt = "MDY" THEN h.day ELSE h.month
      y == IF h.year < 100 THEN h.year + (IF h.year >= 70 THEN 1900 ELSE 2000) ELSE h.year
  IN  m \notin 1..12 \/ d < 1 \/ d > DaysInMonth(y, m - 1)

-----------------------------------------------------------------------------
(* C1. Without an override, when some header is conclusive the resolved    *)
(* format is the one the first conclusive header implies and the result is *)
(* not ambiguous, however many non-conclusive headers precede it.          *)
C1_FirstConclusiveHeaderDecides ==
  (Done /\ NoOverride /\ ConclusiveRanks # {}) =>
     /\ result.dateFormat = ImpliedFormat(Headers[Least(ConclusiveRanks)])
     /\ result.ambiguous = FALSE

(* C2 as claimed: in a transcript of any length whose headers all have     *)
(* both tokens <= 12, whose day-first reading is non-decreasing and whose  *)
(* month-first reading has a decrease, the resolved format is day-first.   *)
C2_AnyLength ==
  (/\ Done /\ NoOverride /\ Len(Headers) > 0
   /\ AmbiguousRanks = 1..Len(Headers)
   /\ NonDecreasing(ReadAs("DMY", Len(Headers)))
   /\ HasDecrease(ReadAs("MDY", Len(Headers))))
  => result.dateFormat = "DMY"

(* C2 as amended: the same, when the decrease of the month-first reading   *)
(* lies within the first 50 headers (the resolver's samples).              *)
C2_WithinSamples ==
  (/\ Done /\ NoOverride /\ Len(Headers) > 0
   /\ AmbiguousRanks = 1..Len(Headers)
   /\ NonDecreasing(ReadAs("DMY", Len(Headers)))
   /\ HasDecrease(ReadAs("MDY", SampleCap)))
  => result.dateFormat = "DMY"

C2_Witness ==
  /\ Done /\ NoOverride
  /\ Len(Headers) >= SampleCap - 1
  /\ AmbiguousRanks = 1..Len(Headers)
  /\ NonDecreasing(ReadAs("DMY", Len(Headers)))
  /\ HasDecrease(ReadAs("MDY", SampleCap))
  /\ result.dateFormat = "DMY"

(* C3. With an override, for every text (the empty one included) the       *)
(* returned format is the override, usedOverride is true and every         *)
(* returned message carries the instant its header gives under the         *)
(* override.                                                               *)
C3_OverrideWins ==
  (Done /\ dateFormatOverride # Null) =>
     /\ result.dateFormat = dateFormatOverride
     /\ result.usedOverride = TRUE
     /\ Len(result.messages) = Len(Headers)
     /\ \A k \in 1..Len(Headers) :
          result.messages[k].timestamp = HeaderDate(Headers[k], dateFormatOverride)

C3_Witness ==
  /\ Done /\ dateFormatOverride = "MDY"
  /\ determination.format = "DMY" /\ determination.ambiguous = FALSE
  /\ Len(result.messages) >= 2
  /\ result.dateFormat = "MDY"
  /\ \E k \in 1..Len(Headers) :
       HeaderDate(Headers[k], "MDY") # HeaderDate(Headers[k], "DMY")

(* C4. Without an override the result is ambiguous exactly when no header  *)
(* is conclusive and some header has both tokens <= 12, and then the       *)
(* candidate list is the day-first and the month-first evaluation; with no *)
(* conclusive header and no such header the format is day-first, not       *)
(* ambiguous, with no candidates.                                          *)
C4_AmbiguousExactly ==
  (Done /\ NoOverride) =>
     /\ result.ambiguous <=> (ConclusiveRanks = {} /\ AmbiguousRanks # {})
     /\ result.ambiguous =>
          /\ Len(result.candidates) = 2
          /\ result.candidates[1].format = "DMY"
          /\ result.candidates[2].format = "MDY"
     /\ (ConclusiveRanks = {} /\ AmbiguousRanks = {}) =>
          /\ result.dateFormat = "DMY"
          /\ result.ambiguous = FALSE
          /\ result.candidates = <<>>

(* C5. A header whose tokens, read with the resolved format, name an       *)
(* impossible calendar date gives an invalid timestamp and no returned     *)
(* message: the returned messages are as many as the headers with a        *)
(* possible date.                                                          *)
C5_ImpossibleDatesDropped ==
  Done =>
     /\ \A k \in 1..Len(Headers) :
          ImpossibleDate(Headers[k], result.dateFormat)
            => IsNaN(HeaderDate(Headers[k], result.dateFormat))
     /\ Len(result.messages) =
          Cardinality({k \in 1..Len(Headers) :
                         ~ImpossibleDate(Headers[k], result.dateFormat)})

(* C6. Every returned message has a non-empty author.                      *)
C6_AuthorNeverEmpty ==
  Done => \A k \in 1..Len(result.messages) : result.messages[k].author # <<>>

-----------------------------------------------------------------------------
(* C7, C8: the assembler.                                                  *)

\* The header line the parser's loop has just processed.
JustOpened ==
  pc = "loop" /\ idx > 1 /\ matchMessageHeader(rawLines[idx - 1]) # NullHeader

\* The first index at which s has a colon followed by a character of W, 0
\* when there is none.
FirstSeparator(s, W) ==
  LET at == {i \in 1..(Len(s) - 1) : s[i] = Colon /\ s[i + 1] \in W}
  IN  IF at = {} THEN 0 ELSE Least(at)

RECURSIVE RewriteSeparators(_)
\* s with every colon-whitespace pair, left to right, written ": ".
RewriteSeparators(s) ==
  IF s = <<>> THEN <<>>
  ELSE IF Len(s) >= 2 /\ s[1] = Colon /\ IsSpace(s[2])
    THEN <<Colon, Space>> \o RewriteSeparators(SubSeq(s, 3, Len(s)))
  ELSE <<s[1]>> \o RewriteSeparators(Tail(s))

(* C7 as claimed: a header's record is a message exactly when its          *)
(* remainder contains ": "; then the author is the text left of the first  *)
(* ": ", quote-stripped and trimmed (the sentinel when there is no such    *)
(* text), and the initial content is all that is right of it, the later    *)
(* ": " included; otherwise it is a system record by the sentinel author   *)
(* whose content is the whole remainder.  Contents are compared up to      *)
(* surrounding whitespace.                                                 *)
C7_SplitOnColonSpace ==
  JustOpened =>
    LET rest == rawLines[idx - 1].rest
        i == FirstSeparator(rest, {Space})
        left == SubSeq(rest, 1, i - 1)
    IN  IF i # 0
          THEN /\ current.type = "message"
               /\ current.author =
                    (IF left = <<>> THEN SystemAuthor ELSE Trim(StripQuotes(left)))
               /\ Trim(current.content) = Trim(SubSeq(rest, i + 2, Len(rest)))
          ELSE /\ current.type = "system"
               /\ current.author = SystemAuthor
               /\ Trim(current.content) = Trim(rest)

(* C7 as amended: the separator is a colon followed by any whitespace      *)
(* character; the author is the text left of the first separator with one  *)
(* quote taken off each end and then trimmed (the sentinel when that text  *)
(* is empty); the initial content is what is right of it, trimmed, with    *)
(* every later separator written ": "; a system record's content is the    *)
(* trimmed remainder.                                                      *)
C7_SplitOnColonWhitespace ==
  JustOpened =>
    LET rest == rawLines[idx - 1].rest
        i == FirstSeparator(rest, {Space, Tab, Newline})
        left == SubSeq(rest, 1, i - 1)
    IN  IF i # 0
          THEN /\ current.type = "message"
               /\ current.author =
                    (IF left = <<>> THEN SystemAuthor ELSE Trim(StripQuotes(left)))
               /\ current.content =
                    Trim(RewriteSeparators(SubSeq(rest, i + 2, Len(rest))))
          ELSE /\ current.type = "system"
               /\ current.author = SystemAuthor
               /\ current.content = Trim(rest)

C7_Witness ==
  /\ JustOpened
  /\ current.type = "message"
  /\ FirstSeparator(rawLines[idx - 1].rest, {Space}) = 0
  /\ current.author = <<"a">>
  /\ current.content = <<"a">>

\* The positions of the header lines, in document order.
HeaderPositions ==
  SelectSeq([i \in 1..Len(rawLines) |-> i],
            LAMBDA i : matchMessageHeader(rawLines[i]) # NullHeader)

RECURSIVE ContinuationText(_, _)
\* Lines from..to, each preceded by a line break.
ContinuationText(from, to) ==
  IF from > to THEN <<>>
  ELSE <<Newline>> \o rawLines[from].rest \o ContinuationText(from + 1, to)

(* C8. Each non-header line after a header is appended, after a line       *)
(* break, to the record of the nearest header before it, in line order; a  *)
(* record is flushed when the next header arrives or at the end of the     *)
(* input; a flushed record's content is its initial content and its        *)
(* continuation lines, trimmed.                                            *)
C8_ContinuationLinesAppended ==
  LET pos == HeaderPositions
      initial(k) == OpenRecord(matchMessageHeader(rawLines[pos[k]]), format).content
      last(k) == IF k < Len(pos) THEN pos[k + 1] - 1 ELSE Len(rawLines)
      whole(k) == initial(k) \o ContinuationText(pos[k] + 1, last(k))
      seen == Cardinality({k \in 1..Len(pos) : pos[k] < idx})
  IN  /\ pc = "loop" =>
           /\ (current = NullMessage) <=> (seen = 0)
           /\ Len(messages) = (IF seen = 0 THEN 0 ELSE seen - 1)
           /\ \A k \in 1..Len(messages) : messages[k].content = Trim(whole(k))
           /\ seen > 0 =>
                current.content =
                  initial(seen) \o ContinuationText(pos[seen] + 1, idx - 1)
      /\ (Done /\ rawLines # <<>>) =>
           /\ Len(result.messages) = Len(pos)
           /\ \A k \in 1..Len(pos) : result.messages[k].content = Trim(whole(k))

C8_Witness ==
  /\ Done
  /\ Len(result.messages) = 2
  /\ Len(rawLines) = 3
  /\ matchMessageHeader(rawLines[2]) = NullHeader
  /\ result.messages[1].content = <<"b", Newline, "a">>

-----------------------------------------------------------------------------
(* Claims about computeStatistics.                                         *)

SortedAscending(q) == \A i \in 1..Len(q) - 1 : q[i].timestamp <= q[i + 1].timestamp

\* Messages that share a timestamp are equal in every field.
TiesAreCopies(q) ==
  \A i, j \in 1..Len(q) : q[i].timestamp = q[j].timestamp => q[i] = q[j]

\* The last call took the array of the call before it, sorted ascending then,
\* in the opposite order.
ReversedAfterSorted ==
  /\ call = "reversed"
  /\ SortedAscending(before.messages)

\* C9 as stated: computeStatistics returns the same result for a message
\* array sorted ascending by timestamp and for that array reversed, whatever
\* messages share a timestamp.
C9_SameResultReversed == ReversedAfterSorted => stats = before.stats

\* C9, amended: computeStatistics returns the same result for a message array
\* sorted ascending by timestamp and for that array reversed, provided that
\* messages sharing a timestamp are equal in every field.
C9_SameResultReversedNoTies ==
  (ReversedAfterSorted /\ TiesAreCopies(before.messages)) => stats = before.stats

\* Three messages at three instants by two authors, reversed, with response
\* times in the result.
C9_Witness ==
  /\ ReversedAfterSorted
  /\ TiesAreCopies(before.messages)
  /\ Len(filteredMessages) = 3
  /\ filteredMessages # before.messages
  /\ \A i, j \in 1..3 : i # j => filteredMessages[i].timestamp # filteredMessages[j].timestamp
  /\ Len(stats.participants) = 2
  /\ DOMAIN stats.responseTimes # {}

Qualifying(samples, author) == Len(MapGet(samples, author, <<>>))

Authors == {m.author : m \in ChatMessages}

\* The last call differs from the one before it in responseGapMinutes only,
\* which went from unset to a value or from a value to a smaller one.
Tightened ==
  /\ call = "gap"
  /\ responseOptions.responseGapMinutes # Unset
  /\ \/ before.options.responseGapMinutes = Unset
     \/ responseOptions.responseGapMinutes < before.options.responseGapMinutes

NoMoreQualify ==
  \A a \in Authors : Qualifying(responseSamples, a) <= Qualifying(before.samples, a)

\* C10 as stated: taking responseGapMinutes from unset to a value N, or from
\* N to any smaller value M, never increases the number of qualifying
\* response gaps of any participant.
C10_TighteningNeverAdds == Tightened => NoMoreQualify

\* C10, amended: taking responseGapMinutes from unset to a value N, or from N
\* to a smaller value M greater than zero, never increases the number of
\* qualifying response gaps of any participant.
C10_TighteningToPositiveNeverAdds ==
  (Tightened /\ (before.options.responseGapMinutes = Unset
                   \/ responseOptions.responseGapMinutes > 0)) => NoMoreQualify

\* The cutoff went from 60 minutes to 5 and a participant lost a sample.
C10_Witness ==
  /\ Tightened
  /\ before.options.responseGapMinutes = 60
  /\ responseOptions.responseGapMinutes = 5
  /\ \E a \in Authors : Qualifying(responseSamples, a) < Qualifying(before.samples, a)

-----------------------------------------------------------------------------
(* Claims about the response times computeStatistics reports.              *)

Called == call # "none"

RECURSIVE SortAscending(_)
\* The numbers of q in ascending order.
SortAscending(q) ==
  IF q = <<>> THEN <<>>
  ELSE LET least == CHOOSE i \in 1..Len(q) : \A j \in 1..Len(q) : q[i] <= q[j]
       IN  <<q[least]>> \o SortAscending([k \in 1..Len(q) - 1 |->
                                            IF k < least THEN q[k] ELSE q[k + 1]])

\* The mean and the median of gaps given in seconds, in hundredths of a
\* minute, rounded.
MeanMinutes(deltas) == (2 * Sum(deltas) * 100 + 60 * Len(deltas)) \div (120 * Len(deltas))
MedianMinutes(deltas) ==
  LET sorted == SortAscending(deltas)
      n == Len(sorted)
      twice == IF n % 2 = 1 THEN 2 * sorted[(n + 1) \div 2]
               ELSE sorted[n \div 2] + sorted[n \div 2 + 1]
  IN  (2 * twice * 100 + 120) \div 240

IsResponseRecord(entry, deltas) ==
  /\ entry.typeof = "object"
  /\ entry.samples = Len(deltas)
  /\ entry.averageMinutes = MeanMinutes(deltas)
  /\ entry.medianMinutes = MedianMinutes(deltas)

\* C11: after a call, each participant with at least one qualifying response
\* gap has a responseTimes entry that is a record of the number of those
\* gaps (samples), their mean (averageMinutes) and their median
\* (medianMinutes); a participant with no qualifying gap has no entry.
C11_ResponseTimeRecords ==
  Called =>
    \A a \in {"Alice", "Bob", "System"} :
      IF Qualifying(responseSamples, a) > 0
        THEN /\ a \in DOMAIN stats.responseTimes
             /\ IsResponseRecord(stats.responseTimes[a], responseSamples[a])
        ELSE a \notin DOMAIN stats.responseTimes

\* Alice and Bob in turn, four messages at ten-minute gaps, no cutoff.
TenMinuteExchange ==
  /\ call = "refresh"
  /\ filteredMessages = Exchange(<<10, 10, 10>>)
  /\ responseOptions.responseGapMinutes = Unset

\* C12: for the four-message exchange of A and B in turn at ten-minute gaps
\* on one day with no cutoff, Bob's entry reports an average of 10 minutes,
\* a median of 10 minutes and samples = 3.
C12_TenMinuteExchange ==
  TenMinuteExchange =>
    /\ "Bob" \in DOMAIN stats.responseTimes
    /\ stats.responseTimes["Bob"].typeof = "object"
    /\ stats.responseTimes["Bob"].averageMinutes = 1000
    /\ stats.responseTimes["Bob"].medianMinutes = 1000
    /\ stats.responseTimes["Bob"].samples = 3

-----------------------------------------------------------------------------
(* Claims about media placeholders and words.                              *)

\* The per-participant ranking a reader of the result finds:
\* stats.topWordsByParticipant?.[participant] || [].
RankingOf(st, participant) ==
  IF "topWordsByParticipant" \in DOMAIN st
    THEN MapGet(st.topWordsByParticipant, participant, <<>>)
    ELSE <<>>

Alphabet == <<"hello", "joined", "media", "omitted", "world">>
AlphabetRank(w) == CHOOSE i \in 1..Len(Alphabet) : Alphabet[i] = w

RECURSIVE WordsOfAll(_)
WordsOfAll(msgs) ==
  IF msgs = <<>> THEN <<>>
  ELSE extractWords(Head(msgs).content) \o WordsOfAll(Tail(msgs))

\* The words of the participant's messages that are no media placeholders.
WordsOfParticipant(msgs, participant) ==
  WordsOfAll(SelectSeq(msgs, LAMBDA m : /\ m.type = "message"
                                        /\ m.author = participant
                                        /\ ~isMediaMessage(m.content)))

RECURSIVE RankWords(_, _)
\* The words of the set with their counts, the greater count first and among
\* equal counts the alphabetically earlier word first.
RankWords(wordSet, count) ==
  IF wordSet = {} THEN <<>>
  ELSE LET first == CHOOSE w \in wordSet : \A v \in wordSet :
                      \/ count[w] > count[v]
                      \/ count[w] = count[v] /\ AlphabetRank(w) <= AlphabetRank(v)
       IN  <<<<first, count[first]>>>> \o RankWords(wordSet \ {first}, count)

ExpectedRanking(words) ==
  LET wordSet == {words[i] : i \in 1..Len(words)}
      count == [w \in wordSet |-> Cardinality({i \in 1..Len(words) : words[i] = w})]
      ranked == RankWords(wordSet, count)
  IN  SubSeq(ranked, 1, IF Len(ranked) < 10 THEN Len(ranked) ELSE 10)

\* C14: after a call the result has topWordsByParticipant, which gives for
\* every participant that participant's words from non-media messages ranked
\* by count descending, ties alphabetically, cut to at most 10 entries.
C14_TopWordsByParticipant ==
  (Called /\ filteredMessages # <<>>) =>
    /\ "topWordsByParticipant" \in DOMAIN stats
    /\ \A i \in 1..Len(stats.participants) :
         RankingOf(stats, stats.participants[i])
           = ExpectedRanking(WordsOfParticipant(filteredMessages, stats.participants[i]))

-----------------------------------------------------------------------------
(* Claims about message lengths.                                           *)

\* The participant's messages that are no media placeholders and have a
\* word or a character once trimmed, by their places in the array.
QualifyingPlaces(msgs, participant) ==
  {i \in 1..Len(msgs) :
     /\ msgs[i].type = "message"
     /\ msgs[i].author = participant
     /\ ~isMediaMessage(msgs[i].content)
     /\ (Len(msgs[i].content.words) > 0 \/ TrimmedLength(msgs[i].content) > 0)}

\* Message m is no shorter than message n: more words, or as many and more
\* characters once trimmed, or as many of both and no later.
NoShorter(m, n) ==
  \/ Len(m.content.words) > Len(n.content.words)
  \/ /\ Len(m.content.words) = Len(n.content.words)
     /\ TrimmedLength(m.content) > TrimmedLength(n.content)
  \/ /\ Len(m.content.words) = Len(n.content.words)
     /\ TrimmedLength(m.content) = TrimmedLength(n.content)
     /\ m.timestamp <= n.timestamp

IsLongestOf(entry, msgs, places) ==
  \E i \in places :
    /\ entry.timestamp = msgs[i].timestamp
    /\ entry.content = msgs[i].content
    /\ entry.wordCount = Len(msgs[i].content.words)
    /\ entry.charCount = TrimmedLength(msgs[i].content)
    /\ \A j \in places : NoShorter(msgs[i], msgs[j])

\* C15: after a call, longestMessageByParticipant gives for every
\* participant the non-media message of the participant with the most
\* words, among those the one with the most characters once trimmed, among
\* those the earliest, with the word and character counts of its trimmed
\* content; it gives null when no message of the participant qualifies.
C15_LongestMessage ==
  Called =>
    \A i \in 1..Len(stats.participants) :
      LET participant == stats.participants[i]
          places == QualifyingPlaces(filteredMessages, participant)
          entry == stats.longestMessageByParticipant[participant]
      IN  IF places = {} THEN entry = NullLongest
          ELSE IsLongestOf(entry, filteredMessages, places)

\* Alice wrote two messages of as many words and characters at two instants,
\* the later one first in the array, and the earlier one is recorded.
C15_Witness ==
  /\ call = "refresh"
  /\ Len(filteredMessages) = 2
  /\ filteredMessages[1].author = "Alice" /\ filteredMessages[2].author = "Alice"
  /\ filteredMessages[1].content = Greeting /\ filteredMessages[2].content = Turned
  /\ filteredMessages[1].timestamp > filteredMessages[2].timestamp
  /\ stats.longestMessageByParticipant["Alice"].content = Turned

RECURSIVE TrimmedTotal(_, _)
\* The characters of the participant's messages that are no media
\* placeholders, each content trimmed.
TrimmedTotal(msgs, participant) ==
  IF msgs = <<>> THEN 0
  ELSE TrimmedTotal(Tail(msgs), participant)
         + (IF /\ Head(msgs).type = "message"
               /\ Head(msgs).author = participant
               /\ ~isMediaMessage(Head(msgs).content)
              THEN TrimmedLength(Head(msgs).content) ELSE 0)

\* C16: after a call, averageMessageLength of every participant is the total
\* of the trimmed lengths of the participant's contents divided by the
\* participant's message count, rounded to one decimal.
C16_AverageOfTrimmedLengths ==
  Called =>
    \A i \in 1..Len(stats.participants) :
      LET participant == stats.participants[i] IN
      stats.averageMessageLength[participant]
        = (2 * TrimmedTotal(filteredMessages, participant) * 10
             + stats.messageCountByParticipant[participant])
            \div (2 * stats.messageCountByParticipant[participant])

-----------------------------------------------------------------------------
(* filterMessagesByDate.  The Dates of this part are time values in        *)
(* milliseconds of local time since 2000-01-01 00:00:00.000; a date input  *)
(* is the sequence of the numbers between its hyphens, <<>> when it is     *)
(* null or the empty string.                                               *)

\* new Date(year, monthIndex, day, hours, minutes, seconds, ms).getTime()
DateAt(y, monthIndex, d, h, mi, s, ms) ==
  JSDate(y, monthIndex, d, h, mi, s) * 1000 + ms

\* date.setHours(hours, minutes, seconds, ms) without the milliseconds.
setHoursWholeSeconds(date, h, mi, s, ms) ==
  (date \div (86400 * 1000)) * (86400 * 1000) + ((h * 60 + mi) * 60 + s) * 1000

\* date.setHours(hours, minutes, seconds, ms): the same local day, the time
\* of day replaced.
setHours(date, h, mi, s, ms) ==
  (date \div (86400 * 1000)) * (86400 * 1000)
    + ((h * 60 + mi) * 60 + s) * 1000 + ms

parseDateInput(value) ==
  IF value = <<>> THEN NoDate
  ELSE LET year == value[1]
           month == value[2]
           day == value[3]
       IN  IF year = NaN \/ month = NaN \/ day = NaN THEN NoDate
           ELSE DateAt(year, month - 1, day, 0, 0, 0, 0)

\* The array passed as `messages' when filterMessagesByDate has returned:
\* the spread and `filter' build new arrays, the callback reads
\* message.timestamp only.
messagesAfterFilter(msgs) == msgs

filterMessagesByDate(msgs, start_date, end_date) ==
  IF start_date = <<>> /\ end_date = <<>> THEN msgs
  ELSE LET start == parseDateInput(start_date)
           end == parseDateInput(end_date)
           Kept(message) ==
             LET ts == message.timestamp IN
             IF start # NoDate /\ ts < start THEN FALSE
             ELSE IF end # NoDate /\ ts > setHours(end, 23, 59, 59, 999) THEN FALSE
             ELSE TRUE
       IN  SelectSeq(msgs, Kept)

MaxFiltered == 3     \* longest enumerated array of messages to filter

\* Midnights and last milliseconds of the first days of January 2000, and a
\* noon at which two authors wrote.
FilterInstants ==
  {DateAt(2000, 0, 1, 23, 59, 59, 999), DateAt(2000, 0, 2, 0, 0, 0, 0),
   DateAt(2000, 0, 2, 23, 59, 59, 999), DateAt(2000, 0, 3, 0, 0, 0, 0),
   DateAt(2000, 0, 3, 23, 59, 59, 999), DateAt(2000, 0, 4, 0, 0, 0, 0)}

FilterMessages ==
  [timestamp : FilterInstants, author : {"Alice"}, content : {Greeting},
   type : {"message"}]
    \cup [timestamp : {DateAt(2000, 0, 3, 12, 0, 0, 0)}, author : {"Alice", "Bob"},
          content : {Greeting}, type : {"message"}]

FilterInputs == SeqsUpTo(FilterMessages, MaxFiltered)

\* '2000-01-02' .. '2000-01-04'
CalendarDates == {<<2000, 1, 2>>, <<2000, 1, 3>>, <<2000, 1, 4>>}

\* ... and null, and '2000-xx-03'
DateInputValues == CalendarDates \cup {<<>>, <<2000, NaN, 3>>}

FilterInit ==
  /\ ParseIdle
  /\ StatsIdle
  /\ filterableMessages \in FilterInputs
  /\ startDate \in DateInputValues
  /\ endDate \in DateInputValues
  /\ filteredSubset = <<>>
  /\ RenderIdle
  /\ PickIdle
  /\ LoadIdle

\* filteredSubset = filterMessagesByDate(filterableMessages, start, end)
FilterByDate ==
  /\ call = "none"
  /\ filteredSubset' = filterMessagesByDate(filterableMessages, startDate, endDate)
  /\ filterableMessages' = messagesAfterFilter(filterableMessages)
  /\ call' = "filter"
  /\ UNCHANGED <<startDate, endDate, filteredMessages, responseOptions, stats,
                 responseSamples, before, parseVars, renderVars, pickVars, loadVars>>

FilterNext ==
  \/ FilterByDate

FilterSpec == FilterInit /\ [][FilterNext]_vars

\* The local calendar day of an instant and of a date input, counted from
\* 2000-01-01.
CalendarDayOf(ts) == ts \div (24 * 60 * 60 * 1000)
CalendarDay(date) == JSDate(date[1], date[2] - 1, date[3], 0, 0, 0) \div (24 * 60 * 60)

InDateRange(message, s, e) ==
  /\ s # <<>> => CalendarDayOf(message.timestamp) >= CalendarDay(s)
  /\ e # <<>> => CalendarDayOf(message.timestamp) <= CalendarDay(e)

DateOrAbsent(value) == value = <<>> \/ value \in CalendarDates

\* C17: for a start date s and an end date e, each a calendar date or absent
\* and s no later than e, filterMessagesByDate returns in input order exactly
\* the messages whose local calendar date lies in [s, e] (an absent bound is
\* open; with both absent all messages, in the same order).
C17_ExactlyTheDatesInRange ==
  (/\ call = "filter"
   /\ DateOrAbsent(startDate) /\ DateOrAbsent(endDate)
   /\ (startDate # <<>> /\ endDate # <<>>) => CalendarDay(startDate) <= CalendarDay(endDate))
    => filteredSubset
         = SelectSeq(filterableMessages,
                     LAMBDA message : InDateRange(message, startDate, endDate))

\* A message of the last millisecond before s is dropped, those at
\* s 00:00:00.000 and at e 23:59:59.999 are kept.
C17_Witness ==
  /\ call = "filter"
  /\ startDate = <<2000, 1, 2>> /\ endDate = <<2000, 1, 3>>
  /\ Len(filterableMessages) = 3
  /\ filterableMessages[1].timestamp = DateAt(2000, 0, 1, 23, 59, 59, 999)
  /\ filterableMessages[2].timestamp = DateAt(2000, 0, 2, 0, 0, 0, 0)
  /\ filterableMessages[3].timestamp = DateAt(2000, 0, 3, 23, 59, 59, 999)
  /\ filteredSubset = SubSeq(filterableMessages, 2, 3)

-----------------------------------------------------------------------------
(* One call of either function, on any of the inputs above and with any    *)
(* configuration.                                                          *)

FrameInit ==
  \/ /\ ParseIdle
     /\ FilterIdle
     /\ RenderIdle
     /\ PickIdle
     /\ LoadIdle
     /\ filteredMessages \in StatsInputs
     /\ responseOptions \in [responseGapMinutes : GapValues \cup {Unset},
                             overnightBufferMinutes : BufferValues]
     /\ stats = NullStats
     /\ responseSamples = EmptyMap
     /\ before = NoCall
     /\ call = "none"
  \/ FilterInit

FrameNext ==
  \/ RefreshStats
  \/ FilterByDate

FrameSpec == FrameInit /\ [][FrameNext]_vars

-----------------------------------------------------------------------------
\* C19: computeStatistics of no messages, whatever the options, returns an
\* object of the fields every result has, in which the counts are 0, the
\* lists and maps are empty, the hour histogram has 24 slots of 0 and the
\* busiest day, the busiest hour, the streak range and the first and last
\* message dates are null.
C19_EmptyInput ==
  (Called /\ filteredMessages = <<>>) =>
    /\ DOMAIN stats = DOMAIN computeStatistics(
         <<[timestamp |-> Evening, author |-> "Alice", content |-> Greeting,
            type |-> "message"]>>, responseOptions)
    /\ stats.totalMessages = 0 /\ stats.totalWords = 0
    /\ stats.overallAverageWordsPerMessage = 0
    /\ stats.mediaCount = 0 /\ stats.systemCount = 0
    /\ stats.longestStreak = 0
    /\ stats.participants = <<>>
    /\ stats.topWords = <<>> /\ stats.topEmojis = <<>>
    /\ stats.messagesByDate = <<>>
    /\ DOMAIN stats.messageCountByParticipant = {}
    /\ DOMAIN stats.wordCountByParticipant = {}
    /\ DOMAIN stats.averageWordsPerMessage = {}
    /\ DOMAIN stats.averageMessageLength = {}
    /\ DOMAIN stats.responseTimes = {}
    /\ DOMAIN stats.longestMessageByParticipant = {}
    /\ DOMAIN stats.messagesByHour = 0..23
    /\ \A h \in 0..23 : stats.messagesByHour[h] = 0
    /\ stats.busiestDay = NullBusiest
    /\ stats.busiestHour = NoHour
    /\ stats.longestStreakRange = NullRange
    /\ stats.firstMessageDate = NoDate /\ stats.lastMessageDate = NoDate

\* No messages and a reply gap of 60 minutes with an overnight buffer.
C19_Witness ==
  /\ call = "gap"
  /\ filteredMessages = <<>>
  /\ responseOptions.responseGapMinutes = 60
  /\ responseOptions.overnightBufferMinutes = 500
  /\ stats.totalMessages = 0
  /\ stats.responseGapMinutes = 60

-----------------------------------------------------------------------------
(* The dashboard's response-times list and insights list (app.js).         *)
(* A participant name is a sequence of characters.  Markup is a sequence   *)
(* of pieces, each the text of a piece of a template literal or the text   *)
(* an expression of the literal inserted, with the origin of the text; the *)
(* templates are cut down to their tags and words.  Minutes are counted    *)
(* in hundredths.  responseTimes is the sequence of its [key, value]       *)
(* entries in order of insertion.                                          *)

Template(text) == [origin |-> "template", text |-> <<text>>]
NameText(chars) == [origin |-> "name", text |-> chars]
DataText(text) == [origin |-> "data", text |-> <<text>>]

RECURSIVE escapeHtml(_)
\* For null and undefined the result is the one of the empty string, ''.
escapeHtml(text) ==
  IF text = <<>> THEN <<>>
  ELSE LET c == Head(text)
           escaped == CASE c = "&" -> <<"&", "a", "m", "p", ";">>
                        [] c = "<" -> <<"&", "l", "t", ";">>
                        [] c = ">" -> <<"&", "g", "t", ";">>
                        [] c = "\"" -> <<"&", "q", "u", "o", "t", ";">>
                        [] c = "'" -> <<"&", "#", "0", "3", "9", ";">>
                        [] OTHER -> <<c>>
       IN  escaped \o escapeHtml(Tail(text))

\* Intl.NumberFormat with one fraction digit, toLocaleString likewise.
FormatMinutes(hundredths) ==
  LET tenths == (hundredths + 5) \div 10
  IN  ToString(tenths \div 10) \o "." \o ToString(tenths % 10)

NoMetrics == [typeof |-> "undefined"]

\* currentStats.responseTimes?.[participant]
MetricsOf(currentStats, participant) ==
  LET places == {i \in 1..Len(currentStats.responseTimes) :
                   currentStats.responseTimes[i].key = participant}
  IN  IF places = {} THEN NoMetrics
      ELSE currentStats.responseTimes[CHOOSE i \in places : TRUE].value

\* typeof metrics?.averageMinutes === 'number' ? metrics.averageMinutes : null
NumberOr(metrics, field, default) ==
  IF field \in DOMAIN metrics THEN metrics[field] ELSE default

ResponseEntry(currentStats, index) ==
  LET participant == currentStats.participants[index]
      metrics == MetricsOf(currentStats, participant)
  IN  [participant |-> participant,
       average |-> NumberOr(metrics, "averageMinutes", Unset),
       median |-> NumberOr(metrics, "medianMinutes", Unset),
       samples |-> NumberOr(metrics, "samples", 0),
       order |-> index - 1]

\* The order of the characters the names are made of.
Collation == <<"\"", "&", "<", ">", "B", "E">>
CollationRank(c) == CHOOSE i \in 1..Len(Collation) : Collation[i] = c

RECURSIVE localeCompare(_, _)
localeCompare(a, b) ==
  IF a = <<>> /\ b = <<>> THEN 0
  ELSE IF a = <<>> THEN -1
  ELSE IF b = <<>> THEN 1
  ELSE IF Head(a) = Head(b) THEN localeCompare(Tail(a), Tail(b))
  ELSE CollationRank(Head(a)) - CollationRank(Head(b))

\* The comparator of updateResponseTimesList's sort.
CompareEntries(a, b) ==
  LET aHasMetrics == a.median # Unset \/ a.average # Unset
      bHasMetrics == b.median # Unset \/ b.average # Unset
      aKey == IF a.median # Unset THEN a.median ELSE a.average
      bKey == IF b.median # Unset THEN b.median ELSE b.average
      aAvg == IF a.average # Unset THEN a.average ELSE aKey
      bAvg == IF b.average # Unset THEN b.average ELSE bKey
  IN  IF ~aHasMetrics /\ ~bHasMetrics THEN a.order - b.order
      ELSE IF ~aHasMetrics THEN 1
      ELSE IF ~bHasMetrics THEN -1
      ELSE IF aKey = bKey
             THEN IF aAvg = bAvg THEN localeCompare(a.participant, b.participant)
                  ELSE aAvg - bAvg
      ELSE aKey - bKey

RECURSIVE InsertEntry(_, _)
InsertEntry(sorted, x) ==
  IF sorted = <<>> THEN <<x>>
  ELSE IF CompareEntries(x, Head(sorted)) < 0 THEN <<x>> \o sorted
  ELSE <<Head(sorted)>> \o InsertEntry(Tail(sorted), x)

RECURSIVE SortEntries(_)
\* Array.prototype.sort, which is stable, with that comparator.
SortEntries(entries) ==
  IF entries = <<>> THEN <<>>
  ELSE InsertEntry(SortEntries(SubSeq(entries, 1, Len(entries) - 1)),
                   entries[Len(entries)])

\* One <li> of the response-times list.
ResponseItem(entry) ==
  IF entry.average = Unset /\ entry.median = Unset
    THEN <<Template("<li><span class=\"response-name\">"),
           NameText(entry.participant),
           Template("</span><span class=\"response-time-value\">-</span></li>")>>
    ELSE LET avg == IF entry.average = Unset THEN <<>>
                    ELSE <<Template("<span class=\"response-metric\" data-kind=\"avg\"><span class=\"metric-label\">avg</span><span class=\"metric-value\">"),
                           DataText(FormatMinutes(entry.average)),
                           Template(" min</span></span>")>>
             med == IF entry.median = Unset THEN <<>>
                    ELSE <<Template("<span class=\"response-metric\" data-kind=\"median\"><span class=\"metric-label\">median</span><span class=\"metric-value\">"),
                           DataText(FormatMinutes(entry.median)),
                           Template(" min</span></span>")>>
             sampleLabel ==
               IF entry.samples > 0
                 THEN <<Template("<span class=\"response-sample\">"),
                        DataText(ToString(entry.samples)),
                        Template(IF entry.samples = 1 THEN " gap</span>"
                                 ELSE " gaps</span>")>>
                 ELSE <<>>
         IN  <<Template("<li><span class=\"response-name\">"),
               NameText(entry.participant),
               Template("</span><span class=\"response-time-value\">")>>
               \o avg \o med \o sampleLabel \o <<Template("</span></li>")>>

RECURSIVE Join(_)
\* array.join('')
Join(items) == IF items = <<>> THEN <<>> ELSE Head(items) \o Join(Tail(items))

\* What updateResponseTimesList assigns to responseTimesList.innerHTML.
ResponseTimesMarkup(currentStats) ==
  IF Len(currentStats.participants) = 0
    THEN <<Template("<li class=\"empty\">No participants yet</li>")>>
    ELSE LET entries == SortEntries(
                          [i \in 1..Len(currentStats.participants) |->
                             ResponseEntry(currentStats, i)])
         IN  Join([i \in 1..Len(entries) |-> ResponseItem(entries[i])])

\* Object.values(currentStats.responseTimes || {}).some(...)
HasResponseData(currentStats) ==
  \E i \in 1..Len(currentStats.responseTimes) :
    LET value == currentStats.responseTimes[i].value IN
    "medianMinutes" \in DOMAIN value \/ "averageMinutes" \in DOMAIN value

\* What updateResponseCutoffNote assigns to responseCutoffNote.textContent
\* for statistics that have a totalMessages.
CutoffNoteText(currentStats) ==
  LET gap == currentStats.responseGapMinutes
      overnight == currentStats.responseGapOvernightBufferMinutes
      parts == <<Template("Ignoring gaps longer than "), DataText(ToString(gap)),
                 Template(" min")>>
                 \o (IF overnight # 0
                       THEN <<Template(" (+"), DataText(ToString(overnight)),
                              Template(" min when replies cross midnight)")>>
                       ELSE <<>>)
  IN  IF Len(currentStats.participants) = 0
        THEN <<Template("Reply time stats will appear once participants start chatting.")>>
      ELSE IF gap = Unset \/ gap = 0
        THEN IF HasResponseData(currentStats)
               THEN <<Template("Counting every reply gap between different participants and reporting average/median times.")>>
               ELSE <<Template("No qualifying reply gaps yet - once someone replies, average and median times will appear here.")>>
      ELSE IF HasResponseData(currentStats)
        THEN parts \o <<Template(". Showing average and median reply times for each participant.")>>
        ELSE parts \o <<Template(". No qualifying reply gaps yet with this cutoff.")>>

\* The comparator of buildInsights' sort of the entries that have a median;
\* Infinity stands in for an average that is missing.
Infinity == 2147483647
CompareResponders(a, b) ==
  IF a.value.medianMinutes = b.value.medianMinutes
    THEN NumberOr(a.value, "averageMinutes", Infinity)
           - NumberOr(b.value, "averageMinutes", Infinity)
    ELSE a.value.medianMinutes - b.value.medianMinutes

\* responseEntries[0] once sorted: the first of the least entries.
Quickest(responseEntries) ==
  responseEntries[CHOOSE i \in 1..Len(responseEntries) :
                    \A j \in 1..Len(responseEntries) :
                      LET order == CompareResponders(responseEntries[i], responseEntries[j])
                      IN  order < 0 \/ (order = 0 /\ i <= j)]

\* String(hour).padStart(2, '0')
HourLabel(hour) == IF hour < 10 THEN "0" \o ToString(hour) ELSE ToString(hour)

\* The array `insights' of buildInsights.
InsightItems(currentStats) ==
  LET day == IF currentStats.busiestDay # NullBusiest
               THEN <<<<Template("Most active day: <strong>"),
                        DataText(ToString(currentStats.busiestDay.date)),
                        Template("</strong> with "),
                        DataText(ToString(currentStats.busiestDay.count)),
                        Template(" messages.")>>>>
               ELSE <<>>
      hour == IF currentStats.busiestHour # NoHour
                THEN <<<<Template("Peak hour: <strong>"),
                         DataText(HourLabel(currentStats.busiestHour)),
                         Template(":00</strong> when the chat is most lively.")>>>>
                ELSE <<>>
      streak == IF /\ currentStats.longestStreak > 1
                   /\ currentStats.longestStreakRange # NullRange
                  THEN <<<<Template("Longest daily streak: <strong>"),
                           DataText(ToString(currentStats.longestStreak)),
                           Template(" days</strong> from "),
                           DataText(ToString(currentStats.longestStreakRange.start)),
                           Template(" to "),
                           DataText(ToString(currentStats.longestStreakRange.end)),
                           Template(".")>>>>
                  ELSE <<>>
      responseEntries ==
        SelectSeq(currentStats.responseTimes,
                  LAMBDA entry : "medianMinutes" \in DOMAIN entry.value)
      responder ==
        IF responseEntries # <<>>
          THEN LET fastest == Quickest(responseEntries) IN
               <<<<Template("Quickest responder: <strong>"),
                   NameText(fastest.key),
                   Template("</strong> with replies averaging "),
                   IF "averageMinutes" \in DOMAIN fastest.value
                     THEN DataText(FormatMinutes(fastest.value.averageMinutes) \o " min")
                     ELSE Template("-"),
                   Template(" (median "),
                   DataText(FormatMinutes(fastest.value.medianMinutes) \o " min"),
                   Template(").")>>>>
          ELSE <<>>
      insights == day \o hour \o streak \o responder
  IN  IF insights = <<>>
        THEN <<<<Template("Insights will appear here once you load a chat.")>>>>
        ELSE insights

\* What buildInsights assigns to insightList.innerHTML.
InsightsMarkup(currentStats) ==
  LET insights == InsightItems(currentStats)
  IN  Join([i \in 1..Len(insights) |->
              <<Template("<li>")>> \o insights[i] \o <<Template("</li>")>>])

MaxName == 2         \* longest enumerated participant name

NameCharacters == {"E", "<", ">", "&", "\""}

Names == SeqsUpTo(NameCharacters, MaxName) \ {<<>>}

\* Another participant, of a plain name.
Bystander == <<"B">>

ParticipantLists ==
  {<<>>} \cup {<<name>> : name \in Names}
    \cup {<<name, Bystander>> : name \in Names}
    \cup {<<Bystander, name>> : name \in Names}

\* What computeStatistics stores for a participant, and the records the
\* dashboard reads.
MetricsValues ==
  {Number(1000),
   [typeof |-> "object", averageMinutes |-> 450, medianMinutes |-> 320, samples |-> 5],
   [typeof |-> "object", averageMinutes |-> 100, medianMinutes |-> 320, samples |-> 1]}

RECURSIVE ResponseTimesOf(_)
\* The responseTimes objects with keys among the participants, inserted in
\* their order.
ResponseTimesOf(participants) ==
  IF participants = <<>> THEN {<<>>}
  ELSE LET rest == ResponseTimesOf(Tail(participants)) IN
       rest \cup {<<[key |-> Head(participants), value |-> value]>> \o entries :
                    value \in MetricsValues, entries \in rest}

\* The statistics of a chat without traffic worth an insight, and of one
\* with a busiest day and hour, a streak and a reply gap.
QuietStats ==
  [totalMessages |-> 1, responseGapMinutes |-> Unset,
   responseGapOvernightBufferMinutes |-> 0, busiestDay |-> NullBusiest,
   busiestHour |-> NoHour, longestStreak |-> 0, longestStreakRange |-> NullRange]
BusyStats ==
  [totalMessages |-> 6, responseGapMinutes |-> 60,
   responseGapOvernightBufferMinutes |-> 500,
   busiestDay |-> [date |-> DayOf(Evening), count |-> 4],
   busiestHour |-> 6, longestStreak |-> 2,
   longestStreakRange |-> [start |-> DayOf(Evening), end |-> DayOf(NextMorning)]]

WithParticipants(rest, participants, responseTimes) ==
  [totalMessages |-> rest.totalMessages,
   responseGapMinutes |-> rest.responseGapMinutes,
   responseGapOvernightBufferMinutes |-> rest.responseGapOvernightBufferMinutes,
   busiestDay |-> rest.busiestDay,
   busiestHour |-> rest.busiestHour,
   longestStreak |-> rest.longestStreak,
   longestStreakRange |-> rest.longestStreakRange,
   participants |-> participants,
   responseTimes |-> responseTimes]

UiStatsInputs ==
  UNION {{WithParticipants(rest, participants, responseTimes) :
            rest \in {QuietStats, BusyStats},
            responseTimes \in ResponseTimesOf(participants)} :
         participants \in ParticipantLists}

RenderInit ==
  /\ ParseIdle
  /\ StatsIdle
  /\ FilterIdle
  /\ PickIdle
  /\ LoadIdle
  /\ uiStats \in UiStatsInputs
  /\ responseTimesList = <<>>
  /\ responseCutoffNote = <<>>
  /\ insightList = <<>>

\* updateResponseTimesList(uiStats)
UpdateResponseTimesList ==
  /\ call = "none"
  /\ responseTimesList' = ResponseTimesMarkup(uiStats)
  /\ call' = "list"
  /\ UNCHANGED <<uiStats, responseCutoffNote, insightList, filteredMessages,
                 responseOptions, stats, responseSamples, before, parseVars,
                 filterVars, pickVars, loadVars>>

\* buildInsights(uiStats)
BuildInsights ==
  /\ call \in {"none", "list"}
  /\ responseTimesList' = ResponseTimesMarkup(uiStats)
  /\ responseCutoffNote' = CutoffNoteText(uiStats)
  /\ insightList' = InsightsMarkup(uiStats)
  /\ call' = "insights"
  /\ UNCHANGED <<uiStats, filteredMessages, responseOptions, stats,
                 responseSamples, before, parseVars, filterVars, pickVars, loadVars>>

RenderNext ==
  \/ UpdateResponseTimesList
  \/ BuildInsights

RenderSpec == RenderInit /\ [][RenderNext]_vars

\* The pieces of a markup that a participant name put there.
NamePieces(markup) ==
  {markup[i] : i \in {j \in 1..Len(markup) : markup[j].origin = "name"}}

EscapedName(piece, currentStats) ==
  /\ \E i \in 1..Len(currentStats.participants) :
       piece.text = escapeHtml(currentStats.participants[i])
  /\ \A i \in 1..Len(piece.text) : piece.text[i] \notin {"<", ">"}

\* C20: what a participant name contributes to the markup of the
\* response-times list and of the insights list is the name as escapeHtml
\* gives it, and no `<' or `>' of the markup comes from a name.
C20_NamesEscaped ==
  /\ \A piece \in NamePieces(responseTimesList) : EscapedName(piece, uiStats)
  /\ \A piece \in NamePieces(insightList) : EscapedName(piece, uiStats)

-----------------------------------------------------------------------------
(* chooseChatFileCandidate.  A file name is a sequence of pieces of text,  *)
(* "/" a piece of its own; what the code asks of a name is asked of its    *)
(* pieces.                                                                 *)

\* toLowerCase and the `i' flag, for the pieces names are made of here.
LowerCaseName(piece) ==
  CASE piece = "WhatsApp Chat with " -> "whatsapp chat with "
    [] piece = "WHATSAPP CHAT WITH " -> "whatsapp chat with "
    [] piece = "WhatsApp Chat" -> "whatsapp chat"
    [] piece = "Alice" -> "alice"
    [] piece = "Bob" -> "bob"
    [] piece = "Readme" -> "readme"
    [] piece = ".TXT" -> ".txt"
    [] piece = "__MACOSX" -> "__macosx"
    [] piece = ".__MACOSX" -> ".__macosx"
    [] OTHER -> piece

\* name.split('/').pop() || name
BaseNameOf(name) ==
  LET slashes == {i \in 1..Len(name) : name[i] = "/"}
      last == IF slashes = {} THEN 0
              ELSE CHOOSE i \in slashes : \A j \in slashes : j <= i
  IN  IF last = Len(name) THEN name ELSE SubSeq(name, last + 1, Len(name))

\* A size that is no finite number, and a candidate without a path.
NoPath == <<>>

normaliseCandidate(candidate) ==
  [name |-> candidate.name,
   path |-> IF candidate.path # NoPath THEN candidate.path ELSE candidate.name,
   baseName |-> BaseNameOf(candidate.name),
   size |-> IF candidate.size # NaN THEN candidate.size ELSE 0]

\* WHATSAPP_NAME_PATTERNS: four beginnings that want something before
\* `.txt', two names that are complete with it.
MatchesNamePattern(baseName) ==
  /\ baseName # <<>>
  /\ LowerCaseName(baseName[Len(baseName)]) = ".txt"
  /\ \/ /\ Len(baseName) >= 3
        /\ LowerCaseName(baseName[1])
             \in {"whatsapp chat with ", "whatsapp chat - ",
                  "whatsapp group chat with ", "whatsapp group chat - "}
     \/ /\ Len(baseName) = 2
        /\ LowerCaseName(baseName[1]) \in {"whatsapp chat", "whatsapp group chat"}

\* WHATSAPP_KEYWORD_PATTERN
MatchesKeyword(baseName) ==
  \E i \in 1..Len(baseName) :
    LowerCaseName(baseName[i])
      \in {"whatsapp chat with ", "whatsapp chat - ", "whatsapp group chat with ",
           "whatsapp group chat - ", "whatsapp chat", "whatsapp group chat",
           "my whatsapp notes"}

InMacFolder(path) ==
  \/ Len(path) >= 2 /\ path[1] = "__MACOSX" /\ path[2] = "/"
  \/ \E i \in 1..Len(path) :
       i + 2 <= Len(path) /\ path[i] = "/" /\ path[i + 1] = ".__MACOSX"
         /\ path[i + 2] = "/"

computeScore(candidate) ==
  (IF MatchesNamePattern(candidate.baseName) THEN 6
   ELSE IF MatchesKeyword(candidate.baseName) THEN 3 ELSE 0)
    + (IF ~InMacFolder(candidate.path) THEN 1 ELSE -3)
    + (IF candidate.size > 0 THEN 1 ELSE 0)

\* The test without its second half: AppleDouble files pass.
IsTextFileOfAnyStart(candidate) ==
  /\ candidate.baseName # <<>>
  /\ LowerCaseName(candidate.baseName[Len(candidate.baseName)]) = ".txt"

\* The candidates chooseChatFileCandidate keeps.
IsTextFile(candidate) ==
  /\ candidate.baseName # <<>>
  /\ LowerCaseName(candidate.baseName[Len(candidate.baseName)]) = ".txt"
  /\ candidate.baseName[1] # "._"

Max(S) == CHOOSE x \in S : \A y \in S : y <= x

\* The base names in the order localeCompare with sensitivity 'base' gives
\* them, names it takes for equal in one place.
BaseNameOrder ==
  <<{<<"my whatsapp notes", ".txt">>}, {<<"readme", ".txt">>},
    {<<"whatsapp chat", ".txt">>}, {<<"whatsapp chat with ", "alice", ".txt">>},
    {<<"whatsapp chat with ", "bob", ".txt">>}>>
BaseNameRank(baseName) ==
  LET lower == [i \in 1..Len(baseName) |-> LowerCaseName(baseName[i])]
  IN  CHOOSE i \in 1..Len(BaseNameOrder) : lower \in BaseNameOrder[i]

RECURSIVE InsertCandidate(_, _)
InsertCandidate(sorted, x) ==
  IF sorted = <<>> THEN <<x>>
  ELSE LET y == Head(sorted)
           order == IF y.size # x.size THEN y.size - x.size
                    ELSE BaseNameRank(x.baseName) - BaseNameRank(y.baseName)
       IN  IF order < 0 THEN <<x>> \o sorted
           ELSE <<y>> \o InsertCandidate(Tail(sorted), x)

RECURSIVE SortCandidates(_)
\* The sort of the ambiguous candidates: larger first, then by base name.
SortCandidates(candidates) ==
  IF candidates = <<>> THEN <<>>
  ELSE InsertCandidate(SortCandidates(SubSeq(candidates, 1, Len(candidates) - 1)),
                       candidates[Len(candidates)])

chooseChatFileCandidate(raw) ==
  LET candidates == SelectSeq([i \in 1..Len(raw) |-> normaliseCandidate(raw[i])],
                              IsTextFile)
      scored == [i \in 1..Len(candidates) |->
                   [candidate |-> candidates[i], score |-> computeScore(candidates[i])]]
      highestScore == Max({scored[i].score : i \in 1..Len(scored)})
      bestByScore == SelectSeq(scored, LAMBDA entry : entry.score = highestScore)
      maxSize == Max({bestByScore[i].candidate.size : i \in 1..Len(bestByScore)})
      largest == SelectSeq(bestByScore, LAMBDA entry : entry.candidate.size = maxSize)
  IN  IF candidates = <<>> THEN [type |-> "none", candidates |-> <<>>]
      ELSE IF Len(largest) = 1
        THEN [type |-> "selected", candidate |-> largest[1].candidate]
      ELSE [type |-> "ambiguous",
            candidates |-> SortCandidates([i \in 1..Len(largest) |->
                                             largest[i].candidate])]

MaxCandidates == 3   \* longest enumerated array of candidates

ChatWithAlice == <<"WhatsApp Chat with ", "Alice", ".txt">>
ChatWithBob == <<"WhatsApp Chat with ", "Bob", ".txt">>
ReadmeText == <<"Readme", ".txt">>

Candidate(name, size) == [name |-> name, path |-> NoPath, size |-> size]

Candidates ==
  {Candidate(ChatWithAlice, 0), Candidate(ChatWithAlice, 5), Candidate(ChatWithAlice, 9),
   Candidate(ChatWithBob, 5), Candidate(ChatWithBob, 9), Candidate(ChatWithBob, NaN),
   Candidate(<<"WHATSAPP CHAT WITH ", "Bob", ".txt">>, 9),
   Candidate(ReadmeText, 5),
   Candidate(<<"my whatsapp notes", ".TXT">>, 5),
   Candidate(<<"my whatsapp notes", ".TXT">>, 9),
   Candidate(<<"__MACOSX", "/", "._">> \o ChatWithAlice, 9),
   Candidate(<<"__MACOSX", "/">> \o ChatWithAlice, 9),
   Candidate(<<"sub", "/", "WhatsApp Chat", ".txt">>, 5),
   Candidate(<<"Readme", ".md">>, 9),
   Candidate(<<"sub", "/", ".__MACOSX", "/">> \o ReadmeText, 5),
   [name |-> ReadmeText, path |-> <<"__MACOSX", "/">> \o ReadmeText, size |-> 5]}

CandidateInputs == SeqsUpTo(Candidates, MaxCandidates)

PickInit ==
  /\ ParseIdle
  /\ StatsIdle
  /\ FilterIdle
  /\ RenderIdle
  /\ LoadIdle
  /\ rawCandidates \in CandidateInputs
  /\ selection = [type |-> "unset", candidates |-> <<>>]

\* selection = chooseChatFileCandidate(rawCandidates)
ChooseCandidate ==
  /\ selection.type = "unset"
  /\ selection' = chooseChatFileCandidate(rawCandidates)
  /\ UNCHANGED <<rawCandidates, parseVars, statsVars, filterVars, renderVars, loadVars>>

PickNext ==
  \/ ChooseCandidate

PickSpec == PickInit /\ [][PickNext]_vars

\* The places of the entries a choice is made among, by the last piece of
\* the base name as it is written or in lower case, and the places of the
\* entries with the highest score and among them the largest size.
EndsInTxt(name) == name # <<>> /\ name[Len(name)] = ".txt"
EndsInTxtOfAnyCase(name) == name # <<>> /\ LowerCaseName(name[Len(name)]) = ".txt"

ScoreAt(i) == computeScore(normaliseCandidate(rawCandidates[i]))
SizeAt(i) == normaliseCandidate(rawCandidates[i]).size

TopOf(eligible) ==
  LET best == {i \in eligible : \A j \in eligible : ScoreAt(j) <= ScoreAt(i)}
  IN  {i \in best : \A j \in best : SizeAt(j) <= SizeAt(i)}

ChoiceAmong(eligible) ==
  LET top == TopOf(eligible) IN
  /\ selection.type = "none" <=> eligible = {}
  /\ selection.type = "selected" <=> Cardinality(top) = 1
  /\ selection.type = "selected" =>
       \A i \in top : selection.candidate = normaliseCandidate(rawCandidates[i])
  /\ selection.type = "ambiguous" =>
       /\ Len(selection.candidates) = Cardinality(top)
       /\ Len(selection.candidates) >= 2
       /\ \A i \in top :
            \E k \in 1..Len(selection.candidates) :
              selection.candidates[k] = normaliseCandidate(rawCandidates[i])
       /\ \A k \in 1..Len(selection.candidates) :
            \E i \in top :
              selection.candidates[k] = normaliseCandidate(rawCandidates[i])

\* C21 as stated: the entries considered are those whose base name ends in
\* `.txt' and does not start with `._'; the result is `none' when there is
\* none, `selected' exactly when a single one has the highest score and among
\* those the largest size, and else `ambiguous' with exactly the tied entries.
C21_ChoiceAmongTxt ==
  selection.type # "unset" =>
    ChoiceAmong({i \in 1..Len(rawCandidates) :
                   LET baseName == BaseNameOf(rawCandidates[i].name) IN
                   EndsInTxt(baseName) /\ baseName[1] # "._"})

\* C21 as amended: the same with `.txt' in any letter case.
C21_ChoiceAmongTxtOfAnyCase ==
  selection.type # "unset" =>
    ChoiceAmong({i \in 1..Len(rawCandidates) :
                   LET baseName == BaseNameOf(rawCandidates[i].name) IN
                   EndsInTxtOfAnyCase(baseName) /\ baseName[1] # "._"})

\* Two chats tied on score and size beside a readme: both are listed.
C21_Witness ==
  /\ selection.type = "ambiguous"
  /\ Len(rawCandidates) = 3
  /\ Len(selection.candidates) = 2
  /\ \E i \in 1..3 : rawCandidates[i].name = ReadmeText
  /\ selection.candidates[1].baseName = ChatWithAlice
  /\ selection.candidates[2].baseName = ChatWithBob

-----------------------------------------------------------------------------
\* C22: without an override and without a conclusive header, the format
\* returned is the one of the evaluation with fewer decreases; with equal
\* decreases the one with the smaller span; with equal spans the one with the
\* greater valid count; and day-first when the two evaluations agree in all
\* three (as they do when there was nothing to evaluate).
C22_OrderOfCriteria ==
  (Done /\ NoOverride /\ ConclusiveRanks = {}) =>
    IF result.candidates = <<>> THEN result.dateFormat = "DMY"
    ELSE LET dayFirst == result.candidates[1]
             monthFirst == result.candidates[2]
         IN  /\ dayFirst.format = "DMY" /\ monthFirst.format = "MDY"
             /\ result.dateFormat =
                  (IF monthFirst.decreases < dayFirst.decreases THEN "MDY"
                   ELSE IF dayFirst.decreases < monthFirst.decreases THEN "DMY"
                   ELSE IF monthFirst.span < dayFirst.span THEN "MDY"
                   ELSE IF dayFirst.span < monthFirst.span THEN "DMY"
                   ELSE IF monthFirst.validCount > dayFirst.validCount THEN "MDY"
                   ELSE "DMY")

\* Equal decreases, and the smaller span makes it month-first.
C22_Witness ==
  /\ Done /\ NoOverride /\ ConclusiveRanks = {}
  /\ Len(result.candidates) = 2
  /\ result.candidates[1].decreases = result.candidates[2].decreases
  /\ result.candidates[2].span < result.candidates[1].span
  /\ result.dateFormat = "MDY"

-----------------------------------------------------------------------------
\* The gaps, in seconds, a participant is to have on record for messages in
\* order of time: one for each message of the participant that follows a
\* message, not a system notice, of another author, and that is within the
\* cutoff when there is one (the cutoff plus the overnight buffer when the
\* two messages are of different days).
GapsOnRecord(sorted, participant, hasCutoff, cutoff, buffer) ==
  LET Counts(i) ==
        /\ i > 1
        /\ sorted[i].type # "system"
        /\ sorted[i].author = participant
        /\ sorted[i - 1].type # "system"
        /\ sorted[i - 1].author # participant
        /\ LET gap == sorted[i].timestamp - sorted[i - 1].timestamp
               sameDay == DayOf(sorted[i].timestamp) = DayOf(sorted[i - 1].timestamp)
           IN  \/ ~hasCutoff
               \/ sameDay /\ gap <= cutoff * 60
               \/ ~sameDay /\ gap <= (cutoff + buffer) * 60
      places == SelectSeq([i \in 1..Len(sorted) |-> i], Counts)
  IN  [k \in 1..Len(places) |->
         sorted[places[k]].timestamp - sorted[places[k] - 1].timestamp]

BufferGiven ==
  IF responseOptions.overnightBufferMinutes = Unset THEN 0
  ELSE responseOptions.overnightBufferMinutes

\* C23 as stated: a cutoff is configured when responseGapMinutes is given.
C23_GapsRecorded ==
  Called =>
    \A participant \in {"Alice", "Bob", "System"} :
      MapGet(responseSamples, participant, <<>>)
        = GapsOnRecord(SortByTimestamp(filteredMessages), participant,
                       responseOptions.responseGapMinutes # Unset,
                       responseOptions.responseGapMinutes, BufferGiven)

\* C23 as amended: a cutoff is configured when responseGapMinutes is a
\* number greater than 0.
C23_GapsRecordedPositiveCutoff ==
  Called =>
    \A participant \in {"Alice", "Bob", "System"} :
      MapGet(responseSamples, participant, <<>>)
        = GapsOnRecord(SortByTimestamp(filteredMessages), participant,
                       responseOptions.responseGapMinutes # Unset
                         /\ responseOptions.responseGapMinutes > 0,
                       responseOptions.responseGapMinutes, BufferGiven)

\* A reply the next morning, 560 minutes after the message before it, with a
\* cutoff of 60 minutes and a buffer of 500: recorded; and with the cutoff
\* alone a reply after 10 minutes is recorded, that one is not.
C23_Witness ==
  /\ call = "gap"
  /\ responseOptions.responseGapMinutes = 60
  /\ responseOptions.overnightBufferMinutes = 500
  /\ Len(filteredMessages) = 2
  /\ filteredMessages[1].author = "Alice"
  /\ filteredMessages[1].timestamp = LaterThatEvening
  /\ filteredMessages[2].author = "Bob"
  /\ filteredMessages[2].timestamp = NextMorning
  /\ responseSamples["Bob"] = <<560 * 60>>


-----------------------------------------------------------------------------
(* The second definition of computeStatistics in chatParser.js, which takes *)
(* the message array alone.  Its loop enters every message, system notices  *)
(* included, into the by-day map and the hour histogram before it looks at  *)
(* the message's type.  Days and hours are UTC there; the model has one     *)
(* time zone, so DayOf and HourOf serve.                                    *)

TallySecond(t, message) ==
  LET counted ==
        [t EXCEPT !.messagesByDate = BumpDate(@, DayOf(message.timestamp)),
                  !.messagesByHour[HourOf(message.timestamp)] = @ + 1]
  IN
  IF message.type = "system"
    THEN [counted EXCEPT !.systemCount = @ + 1, !.previousMessage = message]
  ELSE
    LET author == message.author
        content == message.content
        wordList == extractWords(content)
        mediaMessage == isMediaMessage(content)
        previous == t.previousMessage
        responds == /\ previous # NoPreviousMessage
                    /\ previous.type = "message"
                    /\ previous.author # author
    IN  [counted EXCEPT
           !.participants =
             IF \E i \in 1..Len(@) : @[i] = author THEN @ ELSE Append(@, author),
           !.messageCountByParticipant = MapPut(@, author, MapGet(@, author, 0) + 1),
           !.wordCountByParticipant =
             MapPut(@, author, MapGet(@, author, 0) + Len(wordList)),
           !.totalWordsByParticipant =
             MapPut(@, author, MapGet(@, author, 0) + RawLength(content)),
           !.totalMessages = @ + 1,
           !.totalWords = @ + Len(wordList),
           !.mediaCount = @ + (IF mediaMessage THEN 1 ELSE 0),
           !.words = @ \o (IF mediaMessage THEN <<>> ELSE wordList),
           !.emojis = @ \o (IF mediaMessage THEN <<>> ELSE extractEmojis(content)),
           !.responseTracking =
             IF responds
               THEN MapPut(@, author,
                           Append(MapGet(@, author, <<>>),
                                  message.timestamp - previous.timestamp))
               ELSE @,
           !.previousMessage = message]

RECURSIVE TallyAllSecond(_, _)
TallyAllSecond(sortedMessages, n) ==
  IF n = 0 THEN InitialTally
  ELSE TallySecond(TallyAllSecond(sortedMessages, n - 1), sortedMessages[n])

\* The second definition's result; of its response figures the averages are
\* modelled, the medians and the fastest and slowest responder are not.
computeStatisticsSecond(msgs) ==
  LET sortedMessages == SortByTimestamp(msgs)
      t == TallyAllSecond(sortedMessages, Len(sortedMessages))
      participants == SortByCountDescending(t.participants, t.messageCountByParticipant)
      responders == {a \in DOMAIN t.responseTracking : t.responseTracking[a] # <<>>}
  IN  [totalMessages |-> t.totalMessages,
       totalWords |-> t.totalWords,
       participants |-> participants,
       messageCountByParticipant |-> t.messageCountByParticipant,
       wordCountByParticipant |-> t.wordCountByParticipant,
       mediaCount |-> t.mediaCount,
       systemCount |-> t.systemCount,
       firstMessageDate |-> IF msgs = <<>> THEN NoDate ELSE sortedMessages[1].timestamp,
       lastMessageDate |->
         IF msgs = <<>> THEN NoDate ELSE sortedMessages[Len(sortedMessages)].timestamp,
       messagesByDate |-> t.messagesByDate,
       messagesByHour |-> t.messagesByHour,
       topWords |-> TopEntries(t.words, TopWordsLimit),
       topEmojis |-> TopEntries(t.emojis, TopEmojisLimit),
       averageMessageLength |->
         [a \in {participants[i] : i \in 1..Len(participants)} |->
            round(t.totalWordsByParticipant[a], t.messageCountByParticipant[a], 1)],
       busiestDay |-> BusiestDayLoop(t.messagesByDate, 1, NullBusiest),
       busiestHour |-> BusiestHourLoop(t.messagesByHour, 0, NoHour, 0),
       longestStreak |-> calculateStreaks(t.messagesByDate).length,
       longestStreakRange |-> calculateStreaks(t.messagesByDate).range,
       responseTimes |->
         [a \in responders |->
            Number(round(Sum(t.responseTracking[a]),
                         60 * Len(t.responseTracking[a]), 2))]]

\* A system notice put after or before the other messages of the array.
WithNotice(msgs, timestamp, atEnd) ==
  LET notice == [timestamp |-> timestamp, author |-> "System", content |-> Notice,
                 type |-> "system"]
  IN  IF atEnd THEN Append(msgs, notice) ELSE <<notice>> \o msgs

\* The first definition called again with one more message, a system notice.
RefreshWithNotice ==
  /\ call = "refresh"
  /\ \E timestamp \in {Evening, LaterThatEvening, NextMorning}, atEnd \in BOOLEAN :
       filteredMessages'
         = messagesAfterStatistics(WithNotice(filteredMessages, timestamp, atEnd))
  /\ before' = ThisCall
  /\ stats' = computeStatistics(filteredMessages', responseOptions)
  /\ responseSamples' = StatisticsTally(filteredMessages', responseOptions).responseTracking
  /\ call' = "notice"
  /\ UNCHANGED <<responseOptions, parseVars, filterVars, renderVars, pickVars, loadVars>>

\* stats = computeStatistics(filteredMessages), the second definition
RefreshSecond ==
  /\ call = "none"
  /\ stats' = computeStatisticsSecond(filteredMessages)
  /\ responseSamples'
       = TallyAllSecond(SortByTimestamp(filteredMessages),
                        Len(filteredMessages)).responseTracking
  /\ call' = "second"
  /\ UNCHANGED <<filteredMessages, responseOptions, before, parseVars, filterVars,
                 renderVars, pickVars, loadVars>>

\* The second definition called again with one more message, a system notice.
RefreshSecondWithNotice ==
  /\ call = "second"
  /\ \E timestamp \in {Evening, LaterThatEvening, NextMorning}, atEnd \in BOOLEAN :
       filteredMessages' = WithNotice(filteredMessages, timestamp, atEnd)
  /\ before' = ThisCall
  /\ stats' = computeStatisticsSecond(filteredMessages')
  /\ responseSamples'
       = TallyAllSecond(SortByTimestamp(filteredMessages'),
                        Len(filteredMessages')).responseTracking
  /\ call' = "secondNotice"
  /\ UNCHANGED <<responseOptions, parseVars, filterVars, renderVars, pickVars, loadVars>>

NoticeNext ==
  \/ RefreshStats
  \/ RefreshWithNotice
  \/ RefreshSecond
  \/ RefreshSecondWithNotice

NoticeSpec == StatsInit /\ [][NoticeNext]_vars

\* Indexes of the sorted array whose message and whose predecessor are both
\* participant messages: the only places a response gap can come from.
AnsweringPlaces(msgs) ==
  LET sorted == SortByTimestamp(msgs)
  IN  {i \in 2..Len(sorted) :
         sorted[i].type = "message" /\ sorted[i - 1].type = "message"}

SamplesOnRecord ==
  Cardinality(UNION {{<<a, i>> : i \in 1..Len(responseSamples[a])} :
                       a \in DOMAIN responseSamples})

\* What a call's result has apart from the system counter.
ParticipantFigures(s) ==
  [totalMessages |-> s.totalMessages,
   totalWords |-> s.totalWords,
   participants |-> s.participants,
   messageCountByParticipant |-> s.messageCountByParticipant,
   wordCountByParticipant |-> s.wordCountByParticipant,
   messagesByDate |-> s.messagesByDate,
   messagesByHour |-> s.messagesByHour,
   topWords |-> s.topWords,
   topEmojis |-> s.topEmojis]

\* C24: one more system message in the array raises systemCount by one and
\* leaves totalMessages, the participants, the counts by participant, the
\* by-day map, the hour histogram, the words and the emoji as they were; and
\* no response gap is recorded at a message whose predecessor in time order
\* is a system message.  Stated of both definitions of computeStatistics.
C24_SystemMessageFrame ==
  call \in {"notice", "secondNotice"} =>
    /\ stats.systemCount = before.stats.systemCount + 1
    /\ ParticipantFigures(stats) = ParticipantFigures(before.stats)
    /\ SamplesOnRecord <= Cardinality(AnsweringPlaces(filteredMessages))


-----------------------------------------------------------------------------
\* The positions of the header lines whose record survives the final filter
\* of parseChat, in document order.
KeptHeaderPositions ==
  SelectSeq(HeaderPositions,
            LAMBDA i : ~IsNaN(HeaderDate(matchMessageHeader(rawLines[i]), format)))

\* C25: parseChat starts with no record open and none emitted, and stays so
\* over every line before the first header; the records it returns are, in
\* document order, those opened by header lines, one for each header line
\* whose timestamp is valid and none for any other line.
C25_DocumentOrder ==
  LET pos == HeaderPositions
      kept == KeptHeaderPositions
      firstHeader == IF pos = <<>> THEN Len(rawLines) + 1 ELSE pos[1]
      opened(i) == OpenRecord(matchMessageHeader(rawLines[i]), format)
  IN  /\ pc \in {"start", "scan", "resolve"} => current = NullMessage /\ messages = <<>>
      /\ (pc = "loop" /\ idx <= firstHeader) => current = NullMessage /\ messages = <<>>
      /\ Done =>
           /\ Len(result.messages) = Len(kept)
           /\ Len(result.messages) <= Len(pos)
           /\ \A k \in 1..Len(result.messages) :
                /\ result.messages[k].timestamp = opened(kept[k]).timestamp
                /\ result.messages[k].author = opened(kept[k]).author
                /\ result.messages[k].type = opened(kept[k]).type

\* Two lines of text, then two headers of which the second has the earlier
\* date: two records, in the order of the lines.
C25_Witness ==
  /\ Done
  /\ Len(rawLines) = 3
  /\ matchMessageHeader(rawLines[1]) = NullHeader
  /\ Len(result.messages) = 2
  /\ result.messages[2].timestamp < result.messages[1].timestamp


-----------------------------------------------------------------------------
\* getMinutes() and getSeconds()
MinuteOf(t) == (t % 3600) \div 60
SecondOf(t) == t % 60

IsMarker(period, marker) == ToUpperCase(period) = marker

\* A header line has just been read and its record opened.
HeaderJustRead ==
  /\ pc = "loop"
  /\ idx > 1
  /\ matchMessageHeader(rawLines[idx - 1]) # NullHeader

\* Midnight of the date the header just read resolves to.
ResolvedMidnight ==
  LET header == matchMessageHeader(rawLines[idx - 1])
  IN  parseDate(header.day, header.month, header.year, NoTime, format)

\* C26: for a time token H:MM or H:MM:SS with an optional AM/PM marker in
\* any letter case the timestamp's hour is 0 for 12 AM, 12 for 12 PM, H+12
\* for any other PM hour and H otherwise, its minutes and seconds are those
\* given (seconds 0 when absent); any other token gives 00:00:00; in both
\* cases on the resolved date.
C26_ClockTime ==
  HeaderJustRead =>
    LET t == matchMessageHeader(rawLines[idx - 1]).time
        hour == IF IsMarker(t.period, "AM") /\ t.h = 12 THEN 0
                ELSE IF IsMarker(t.period, "PM") /\ t.h = 12 THEN 12
                ELSE IF IsMarker(t.period, "PM") THEN t.h + 12
                ELSE t.h
    IN  /\ DayOf(current.timestamp) = DayOf(ResolvedMidnight)
        /\ IF t.form \in {"hm", "hms"}
             THEN /\ HourOf(current.timestamp) = hour
                  /\ MinuteOf(current.timestamp) = t.mi
                  /\ SecondOf(current.timestamp) = (IF t.form = "hms" THEN t.s ELSE 0)
             ELSE current.timestamp = ResolvedMidnight

\* C26 as amended: the timestamp is the resolved date's midnight plus the
\* hours, minutes and seconds of the token, where the hours are 0 for 12 AM,
\* H+12 for a PM hour below 12 and H otherwise; any other token gives the
\* midnight itself.
C26_ClockTimeCarried ==
  HeaderJustRead =>
    LET t == matchMessageHeader(rawLines[idx - 1]).time
        hour == IF IsMarker(t.period, "AM") /\ t.h = 12 THEN 0
                ELSE IF IsMarker(t.period, "PM") /\ t.h < 12 THEN t.h + 12
                ELSE t.h
    IN  IF t.form \in {"hm", "hms"}
          THEN current.timestamp
                 = ResolvedMidnight + 3600 * hour + 60 * t.mi
                     + (IF t.form = "hms" THEN t.s ELSE 0)
          ELSE current.timestamp = ResolvedMidnight

\* 11:05:07 pm in brackets has been read as 23:05:07.
C26_Witness ==
  /\ HeaderJustRead
  /\ rawLines[idx - 1].layout = "bracket"
  /\ rawLines[idx - 1].time = [form |-> "hms", h |-> 11, mi |-> 5, s |-> 7,
                                period |-> "Pm"]
  /\ HourOf(current.timestamp) = 23
  /\ MinuteOf(current.timestamp) = 5
  /\ SecondOf(current.timestamp) = 7


-----------------------------------------------------------------------------
(* Calls of computeStatistics on chats that run over several days.         *)

MaxDays == 5         \* days in the enumerated chats

\* What a day of such a chat holds: nothing, a message of Bob's at 21:00,
\* a message of Alice's at 09:00 with Bob's at 21:00, or a system notice.
DayPlans == {"none", "one", "two", "notice"}

MessagesOfDay(k, plan) ==
  LET alice == [timestamp |-> JSDate(2023, 0, k, 9, 0, 0), author |-> "Alice",
                content |-> Greeting, type |-> "message"]
      bob == [timestamp |-> JSDate(2023, 0, k, 21, 0, 0), author |-> "Bob",
              content |-> Reply, type |-> "message"]
      notice == [timestamp |-> JSDate(2023, 0, k, 9, 0, 0), author |-> "System",
                 content |-> Notice, type |-> "system"]
  IN  CASE plan = "none" -> <<>>
        [] plan = "one" -> <<bob>>
        [] plan = "two" -> <<alice, bob>>
        [] plan = "notice" -> <<notice>>

RECURSIVE MessagesOfDays(_, _)
MessagesOfDays(plans, n) ==
  IF n = 0 THEN <<>>
  ELSE MessagesOfDays(plans, n - 1) \o MessagesOfDay(n, plans[n])

DayInputs == {MessagesOfDays(plans, MaxDays) : plans \in [1..MaxDays -> DayPlans]}

DaysInit ==
  /\ ParseIdle
  /\ FilterIdle
  /\ RenderIdle
  /\ PickIdle
  /\ LoadIdle
  /\ filteredMessages \in DayInputs
  /\ responseOptions = [responseGapMinutes |-> Unset, overnightBufferMinutes |-> Unset]
  /\ stats = NullStats
  /\ responseSamples = EmptyMap
  /\ before = NoCall
  /\ call = "none"

DaysNext ==
  \/ RefreshStats
  \/ RefreshReversed

DaysSpec == DaysInit /\ [][DaysNext]_vars

\* The messages of participants in the array of the call.
ParticipantMessages ==
  SelectSeq(filteredMessages, LAMBDA msg : msg.type = "message")

\* The days that have a participant message.
ActiveDays == {DayOf(ParticipantMessages[i].timestamp) : i \in 1..Len(ParticipantMessages)}

\* first..last is a run: every day of it is active and the days next to it
\* are not.
IsRun(first, last) ==
  /\ first <= last
  /\ \A d \in first..last : d \in ActiveDays
  /\ first - 1 \notin ActiveDays
  /\ last + 1 \notin ActiveDays

Runs == {r \in ActiveDays \X ActiveDays : IsRun(r[1], r[2])}

\* C27: longestStreak is the length of the longest run of consecutive days
\* among the days with a participant message, longestStreakRange is that
\* run's first and last day, the earliest such run when several have that
\* length; with no such day the length is 0 and the range is null.
C27_LongestStreak ==
  Called =>
    IF ActiveDays = {}
      THEN stats.longestStreak = 0 /\ stats.longestStreakRange = NullRange
      ELSE LET range == stats.longestStreakRange
           IN  /\ <<range.start, range.end>> \in Runs
               /\ range.end - range.start + 1 = stats.longestStreak
               /\ \A r \in Runs :
                    /\ r[2] - r[1] + 1 <= stats.longestStreak
                    /\ r[2] - r[1] + 1 = stats.longestStreak => range.start <= r[1]

\* Messages on the first two days and on the last two, a notice between:
\* two runs of two days, the first reported.
C27_Witness ==
  /\ Called
  /\ Cardinality(ActiveDays) = 4
  /\ Cardinality(Runs) = 2
  /\ stats.systemCount = 1
  /\ stats.longestStreak = 2
  /\ stats.longestStreakRange.start = DayOf(JSDate(2023, 0, 1, 0, 0, 0))


-----------------------------------------------------------------------------
\* Participant messages on day d, and in hour h of any day.
CountOnDay(d) ==
  Cardinality({i \in 1..Len(ParticipantMessages) :
                 DayOf(ParticipantMessages[i].timestamp) = d})
CountInHour(h) ==
  Cardinality({i \in 1..Len(ParticipantMessages) :
                 HourOf(ParticipantMessages[i].timestamp) = h})

\* C28: busiestDay is the earliest of the days with the greatest number of
\* participant messages, with that number; busiestHour is the lowest of the
\* hours with the greatest number of participant messages, and null when
\* every hour's number is 0.
C28_Busiest ==
  Called =>
    IF ActiveDays = {}
      THEN stats.busiestHour = NoHour
      ELSE /\ stats.busiestDay.date \in ActiveDays
           /\ stats.busiestDay.count = CountOnDay(stats.busiestDay.date)
           /\ \A d \in ActiveDays :
                /\ CountOnDay(d) <= stats.busiestDay.count
                /\ CountOnDay(d) = stats.busiestDay.count => stats.busiestDay.date <= d
           /\ stats.busiestHour \in 0..23
           /\ \A h \in 0..23 :
                /\ CountInHour(h) <= CountInHour(stats.busiestHour)
                /\ CountInHour(h) = CountInHour(stats.busiestHour)
                     => stats.busiestHour <= h

\* Two days with two messages each after a day with one, and as many
\* messages at 09:00 as at 21:00 but for that one: the second day and 21:00.
C28_Witness ==
  /\ Called
  /\ Cardinality({d \in ActiveDays : CountOnDay(d) = 2}) = 2
  /\ CountOnDay(DayOf(JSDate(2023, 0, 1, 0, 0, 0))) = 1
  /\ stats.busiestDay.date = DayOf(JSDate(2023, 0, 2, 0, 0, 0))
  /\ stats.busiestHour = 21


-----------------------------------------------------------------------------
RECURSIVE SumOver(_, _)
\* The sum of f over the keys in S.
SumOver(f, S) ==
  IF S = {} THEN 0
  ELSE LET k == CHOOSE x \in S : TRUE IN f[k] + SumOver(f, S \ {k})

\* C29: totalMessages + systemCount is the length of the input;
\* totalMessages is the sum of messageCountByParticipant, of the by-day
\* map's values and of the 24 slots of the hour histogram; totalWords is the
\* sum of wordCountByParticipant; mediaCount is at most totalMessages.
C29_CountsConserved ==
  Called =>
    /\ stats.totalMessages + stats.systemCount = Len(filteredMessages)
    /\ stats.totalMessages
         = SumOver(stats.messageCountByParticipant,
                   DOMAIN stats.messageCountByParticipant)
    /\ stats.totalMessages
         = Sum([k \in 1..Len(stats.messagesByDate) |-> stats.messagesByDate[k].count])
    /\ stats.totalMessages = SumOver(stats.messagesByHour, 0..23)
    /\ stats.totalWords
         = SumOver(stats.wordCountByParticipant, DOMAIN stats.wordCountByParticipant)
    /\ stats.mediaCount <= stats.totalMessages

\* Two participants, a notice and a media placeholder, two of the messages
\* on one day.
C29_Witness ==
  /\ Called
  /\ Len(filteredMessages) = 4
  /\ stats.systemCount = 1
  /\ stats.mediaCount = 1
  /\ Len(stats.participants) = 2
  /\ \E k \in 1..Len(stats.messagesByDate) : stats.messagesByDate[k].count = 2
  /\ stats.totalWords > 0


-----------------------------------------------------------------------------
(* Loading a chat file in app.js: the change handler of the file input,    *)
(* loadChatFile and processParsedChat.  The handler is an async function:  *)
(* it runs to its await, and what follows the await runs when the read or  *)
(* the unpacking has finished, after whatever else ran in between.  The    *)
(* date fields and the rendering of the dashboard are left out.            *)

MaxSelections == 2   \* files chosen in one run

\* A text stands for its lines: the header line of a message, held as the
\* record it parses to, or a line without a header.
JunkLine == [timestamp |-> NoDate, author |-> "", content |-> Notice, type |-> "none"]

\* parseChat(text).messages for such a text, whose lines without a header
\* all come before the first header.
MessagesOfText(text) == SelectSeq(text, LAMBDA line : line.type # "none")

TextA ==
  <<[timestamp |-> Evening, author |-> "Alice", content |-> Greeting, type |-> "message"],
    [timestamp |-> LaterThatEvening, author |-> "Bob", content |-> Reply,
     type |-> "message"]>>
TextB ==
  <<JunkLine,
    [timestamp |-> NextMorning, author |-> "Bob", content |-> Reply, type |-> "message"]>>
NoChat == <<JunkLine>>

\* A file: its name, whether the name ends in .zip, and the texts of the
\* .txt entries it holds, in the archive's order (the file's own text when
\* it is no archive).
Files ==
  {[name |-> "A.txt", archive |-> FALSE, texts |-> <<TextA>>],
   [name |-> "B.txt", archive |-> FALSE, texts |-> <<TextB>>],
   [name |-> "A.zip", archive |-> TRUE, texts |-> <<TextA>>],
   [name |-> "B.zip", archive |-> TRUE, texts |-> <<TextB, TextA>>],
   [name |-> "photos.zip", archive |-> TRUE, texts |-> <<>>],
   [name |-> "notes.txt", archive |-> FALSE, texts |-> <<NoChat>>]}

LoadInit ==
  /\ ParseIdle
  /\ StatsIdle
  /\ FilterIdle
  /\ RenderIdle
  /\ PickIdle
  /\ LoadIdle

\* The change handler up to `await loadChatFile(file)', and loadChatFile up
\* to its first await.
SelectFile ==
  /\ Len(selected) < MaxSelections
  /\ \E file \in Files :
       /\ selected' = Append(selected, [file |-> file,
                                        during |-> {l.id : l \in loads}])
       /\ fileHelper' = file.name
       /\ loads' = loads \cup
            {[id |-> Len(selected) + 1, file |-> file,
              stage |-> IF file.archive THEN "arrayBuffer" ELSE "text"]}
  /\ loadStatus' = "Parsing chat"
  /\ UNCHANGED <<rawChatText, allMessages, fullStats>>
  /\ UNCHANGED <<parseVars, statsVars, filterVars, renderVars, pickVars>>

\* file.arrayBuffer() has resolved: on to JSZip.loadAsync.
UnpackArchive ==
  /\ \E l \in loads :
       /\ l.stage = "arrayBuffer"
       /\ loads' = (loads \ {l}) \cup {[l EXCEPT !.stage = "loadAsync"]}
  /\ UNCHANGED <<fileHelper, rawChatText, allMessages, fullStats, loadStatus, selected>>
  /\ UNCHANGED <<parseVars, statsVars, filterVars, renderVars, pickVars>>

\* JSZip.loadAsync has resolved: the first .txt entry is looked for and read,
\* or the load throws and the handler reports it.
FindTextEntry ==
  /\ \E l \in loads :
       /\ l.stage = "loadAsync"
       /\ IF l.file.texts = <<>>
            THEN /\ loads' = loads \ {l}
                 /\ loadStatus' = "No .txt file found inside the zip archive."
            ELSE /\ loads' = (loads \ {l}) \cup {[l EXCEPT !.stage = "string"]}
                 /\ UNCHANGED loadStatus
  /\ UNCHANGED <<fileHelper, rawChatText, allMessages, fullStats, selected>>
  /\ UNCHANGED <<parseVars, statsVars, filterVars, renderVars, pickVars>>

\* The text has arrived: the rest of the handler, with processParsedChat.
FinishLoad ==
  /\ \E l \in loads :
       /\ l.stage \in {"text", "string"}
       /\ loads' = loads \ {l}
       /\ rawChatText' = Head(l.file.texts)
       /\ LET parsed == MessagesOfText(rawChatText') IN
            IF parsed = <<>>
              THEN /\ loadStatus' = "No messages could be parsed."
                   /\ UNCHANGED <<allMessages, fullStats, filteredMessages, stats,
                                  responseSamples>>
              ELSE /\ allMessages' = parsed
                   /\ filteredMessages' = parsed
                   /\ fullStats' = computeStatistics(parsed, NoOptions)
                   /\ stats' = computeStatistics(filteredMessages', responseOptions)
                   /\ responseSamples'
                        = StatisticsTally(filteredMessages', responseOptions).responseTracking
                   /\ loadStatus' = "Loaded"
  /\ UNCHANGED <<fileHelper, selected, responseOptions, before, call>>
  /\ UNCHANGED <<parseVars, filterVars, renderVars, pickVars>>

LoadNext ==
  \/ SelectFile
  \/ UnpackArchive
  \/ FindTextEntry
  \/ FinishLoad

LoadSpec == LoadInit /\ [][LoadNext]_vars

\* The text loadChatFile gives for a file that holds a chat.
TextOf(file) == Head(file.texts)
HoldsChat(file) == file.texts # <<>> /\ MessagesOfText(TextOf(file)) # <<>>

LastSelected == selected[Len(selected)]

\* C30: when a file was selected while an earlier one was still being read
\* or unpacked, both holding a chat, then once every load has finished the
\* raw text, the messages and the statistics are those of the file selected
\* last, the one whose name the file helper shows.
C30_LastSelectionLoaded ==
  (/\ Len(selected) >= 2
   /\ LastSelected.during # {}
   /\ \A k \in 1..Len(selected) : HoldsChat(selected[k].file)
   /\ loads = {})
    => /\ fileHelper = LastSelected.file.name
       /\ rawChatText = TextOf(LastSelected.file)
       /\ allMessages = MessagesOfText(TextOf(LastSelected.file))
       /\ fullStats = computeStatistics(allMessages, NoOptions)
       /\ stats = fullStats

====
